---- MODULE Spec2Model ----
(***************************************************************************)
(* Minesweeper board engine (core/minesweeper-board.ts) with the Grid      *)
(* container it is built on (lib/grid.ts).  One action per public board    *)
(* operation; every action runs the whole call, the recursive flood fill   *)
(* and the win / loss handling included.                                   *)
(*                                                                         *)
(* Arrays are functions over 0..size-1, so that the row-major index        *)
(* x + width * y of the source is used unchanged.                          *)
(***************************************************************************)
EXTENDS Integers, Sequences, FiniteSets, TLC

VARIABLES
    tileData,              \* Grid<TileData>, fixed at construction
    tileState,             \* Grid<TileState>
    bombCount,             \* number of bombs of the layout
    tilesLeftToOpenToWin,  \* the remaining-to-win counter
    boardState,            \* _boardState
    lastOp,                \* how the last public call ended: its name, the return
                           \* it left by, the error it threw, what it warned
    lib                    \* an object of lib/ or utils/ exercised on its own
                           \* (a Signal, a Grid, an array being shuffled, the
                           \* settings read from the URL); NULL while the board runs

vars == <<tileData, tileState, bombCount, tilesLeftToOpenToWin, boardState, lastOp, lib>>

\* Boards of at most MaxCells cells are explored.
MaxCells == 4

\* A nullable value (T | null) is <<>> for null and <<v>> for the value v.
NULL == <<>>

Some(v) == <<v>>

\* Errors a call can end with (thrown Error objects).
NoError == "none"
OutOfBoundsError == "Tried to get a point on a grid that is out of bounds"
BombOpenError == "Bomb tile can't be open, while the game is still running"
NegativeError == "This number should never be negative"

Point(x, y) == [x |-> x, y |-> y]

NoPoint == Point(-9, -9)

---------------------------------------------------------------------------
(* lib/grid.ts *)

\* Mutant: the two loops are nested the other way round (dy outer, dx inner).
eightWayNeighborsRowMajor(point) ==
    LET all == [i \in 1..9 |->
                   [dx |-> ((i - 1) % 3) - 1, dy |-> ((i - 1) \div 3) - 1]]
        kept == SelectSeq(all, LAMBDA d : ~(d.dx = 0 /\ d.dy = 0))
    IN  [i \in 1..Len(kept) |-> Point(point.x + kept[i].dx, point.y + kept[i].dy)]

\* for dx in -1..1, for dy in -1..1, skipping (0,0); not bounds-filtered.
eightWayNeighbors(point) ==
    LET all == [i \in 1..9 |->
                   [dx |-> ((i - 1) \div 3) - 1, dy |-> ((i - 1) % 3) - 1]]
        kept == SelectSeq(all, LAMBDA d : ~(d.dx = 0 /\ d.dy = 0))
    IN  [i \in 1..Len(kept) |-> Point(point.x + kept[i].dx, point.y + kept[i].dy)]

Grid(width, height, array) == [width |-> width, height |-> height, array |-> array]

\* Mutant: the two loops are nested the other way round (x outer, y inner).
RECURSIVE pointsColumnsFrom(_, _, _)
pointsColumnsFrom(grid, x, y) ==
    IF x >= grid.width THEN <<>>
    ELSE IF y >= grid.height THEN pointsColumnsFrom(grid, x + 1, 0)
    ELSE <<Point(x, y)>> \o pointsColumnsFrom(grid, x, y + 1)

pointsColumnMajor(grid) == pointsColumnsFrom(grid, 0, 0)

\* for y in 0..height-1, for x in 0..width-1: yield {x, y}
RECURSIVE pointsFrom(_, _, _)
pointsFrom(grid, x, y) ==
    IF y >= grid.height THEN <<>>
    ELSE IF x >= grid.width THEN pointsFrom(grid, 0, y + 1)
    ELSE <<Point(x, y)>> \o pointsFrom(grid, x + 1, y)

points(grid) == pointsFrom(grid, 0, 0)

\* Mutant: the two lower bounds are not tested.
isInBoundsNoLowerBound(grid, point) ==
    /\ point.x < grid.width
    /\ point.y < grid.height

isInBounds(grid, point) ==
    /\ point.x < grid.width
    /\ point.y < grid.height
    /\ point.x >= 0
    /\ point.y >= 0

pointToArrayIndex(grid, point) ==
    IF isInBounds(grid, point) THEN Some(point.x + grid.width * point.y) ELSE NULL

getOrNull(grid, point) ==
    LET index == pointToArrayIndex(grid, point)
    IN  IF index = NULL THEN NULL ELSE Some(grid.array[index[1]])

\* get(point) throws when getOrNull(point) is null; a caller that can be handed
\* such a point tests getThrows first and ends with OutOfBoundsError.
getThrows(grid, point) == getOrNull(grid, point) = NULL

get(grid, point) == getOrNull(grid, point)[1]

\* Array.from(this.points(), point => transform(point, this.get(point)));
\* transform is a function of the point and then of the value stored there.
mapIndexed(grid, transform) ==
    LET pts == points(grid)
    IN  Grid(grid.width, grid.height,
             [i \in 0..(Len(pts) - 1) |-> transform[pts[i + 1]][get(grid, pts[i + 1])]])

---------------------------------------------------------------------------
(* core/minesweeper-board.ts: construction *)

BOMB_TILE == [type |-> "bomb"]

EmptyTile(n) == [type |-> "empty", bombNeighbors |-> n]

InitialTileState == [state |-> "default", isOpen |-> FALSE, wasClicked |-> FALSE]

\* Mutant: only the four neighbors in the same row or column are counted.
CountBombNeighborsFourWay(bombsGrid, point) ==
    Len(SelectSeq(eightWayNeighbors(point),
                  LAMBDA p : LET v == getOrNull(bombsGrid, p)
                             IN  /\ (p.x = point.x \/ p.y = point.y)
                                 /\ IF v = NULL THEN FALSE ELSE v[1]))

\* Array.from(eightWayNeighbors(point)).filter(p => bombsGrid.getOrNull(p) ?? false).length
CountBombNeighbors(bombsGrid, point) ==
    Len(SelectSeq(eightWayNeighbors(point),
                  LAMBDA p : LET v == getOrNull(bombsGrid, p)
                             IN  IF v = NULL THEN FALSE ELSE v[1]))

TileDataOf(bombsGrid) ==
    LET pts == points(bombsGrid)
    IN  mapIndexed(bombsGrid,
                   [point \in {pts[i] : i \in 1..Len(pts)} |->
                       [isBomb \in BOOLEAN |->
                           IF isBomb THEN BOMB_TILE
                           ELSE EmptyTile(CountBombNeighbors(bombsGrid, point))]])

\* bombsArray.filter(isBomb => isBomb).length
CountBombs(bombsArray) == Cardinality({i \in DOMAIN bombsArray : bombsArray[i]})

\* Errors a construction can end with.
WidthError == "Width should be greater than zero"
HeightError == "Height should be greater than zero"
LengthError == "Bomb array should be as long as the size of the cells of the grid"
GridSizeError == "Size of the array should be equal to the size of the grid"
InvalidArrayLength == "RangeError: Invalid array length"

\* array.length of an array over 0..n-1
Length(array) == Cardinality(DOMAIN array)

\* Mutant: the length of the layout is not checked.
ConstructorErrorNoLength(width, height, bombsArray) ==
    IF ~(width > 0) THEN WidthError
    ELSE IF ~(height > 0) THEN HeightError
    ELSE NoError

\* The three asserts of the board constructor, in order: the error of the
\* first that fails.
ConstructorError(width, height, bombsArray) ==
    IF ~(width > 0) THEN WidthError
    ELSE IF ~(height > 0) THEN HeightError
    ELSE IF ~(Length(bombsArray) = width * height) THEN LengthError
    ELSE NoError

\* The constructor's preconditions (its three asserts).
ConstructorAccepts(width, height, bombsArray) ==
    ConstructorError(width, height, bombsArray) = NoError

\* The asserts of the Grid constructor; array is the optional argument,
\* NULL when it is left out.
GridError(width, height, array) ==
    IF ~(width > 0) THEN WidthError
    ELSE IF ~(height > 0) THEN HeightError
    ELSE IF array # NULL /\ ~(Length(array[1]) = width * height) THEN GridSizeError
    ELSE NoError

\* new Grid(width, height, array): the error thrown and the object, if any.
newGrid(width, height, array) ==
    LET error == GridError(width, height, array)
    IN  IF error # NoError THEN [threw |-> error, object |-> NULL]
        ELSE [threw |-> NoError,
              object |-> Some(Grid(width, height,
                                   IF array # NULL THEN array[1]
                                   ELSE [i \in 0..(width * height - 1) |-> NULL]))]

\* new MinesweeperBoard(width, height, bombsArray): the error thrown and the
\* fields of the object, if any.
newMinesweeperBoard(width, height, bombsArray) ==
    LET error == ConstructorError(width, height, bombsArray)
        bombsGrid == newGrid(width, height, Some(bombsArray))
    IN  IF error # NoError THEN [threw |-> error, object |-> NULL]
        ELSE IF bombsGrid.threw # NoError THEN [threw |-> bombsGrid.threw, object |-> NULL]
        ELSE [threw |-> NoError,
              object |-> Some([tileData |-> TileDataOf(bombsGrid.object[1]),
                               tileState |-> newGrid(width, height,
                                   Some([i \in 0..(width * height - 1) |-> InitialTileState])).object[1],
                               bombCount |-> CountBombs(bombsArray),
                               tilesLeftToOpenToWin |-> (width * height) - CountBombs(bombsArray),
                               boardState |-> "not_started"])]

Dimensions ==
    {d \in (1..MaxCells) \X (1..MaxCells) : d[1] * d[2] <= MaxCells}

\* No call has been made on the board yet.
NoCall(name, threw) ==
    [name |-> name, path |-> "none", threw |-> threw,
     started |-> FALSE, warned |-> {}, opened |-> 0]

\* The variables hold the fields of the constructed object.
IsBoard(object) ==
    /\ tileData = object.tileData
    /\ tileState = object.tileState
    /\ bombCount = object.bombCount
    /\ tilesLeftToOpenToWin = object.tilesLeftToOpenToWin
    /\ boardState = object.boardState

\* new MinesweeperBoard(width, height, bombsArray): the fields after construction.
MinesweeperBoard(width, height, bombsArray) ==
    LET r == newMinesweeperBoard(width, height, bombsArray)
    IN  /\ r.threw = NoError
        /\ IsBoard(r.object[1])
        /\ lastOp = NoCall("none", NoError)
        /\ lib = NULL

Init ==
    \E d \in Dimensions :
        \E bombsArray \in [0..(d[1] * d[2] - 1) -> BOOLEAN] :
            MinesweeperBoard(d[1], d[2], bombsArray)

---------------------------------------------------------------------------
(* core/minesweeper-board.ts: generate, with Array.prototype.fill and      *)
(* shuffleArray (utils/digit-array.ts)                                     *)

Min(a, b) == IF a < b THEN a ELSE b

Max(a, b) == IF a > b THEN a ELSE b

\* new Array(length): every slot is empty.
NewArray(length) == [i \in 0..(length - 1) |-> NULL]

\* A relative index of Array.prototype.fill: a negative one counts from the
\* end, and the result is clamped to 0..length.
RelativeIndex(index, length) ==
    IF index < 0 THEN Max(length + index, 0) ELSE Min(index, length)

\* array.fill(value, start, end)
fill(array, value, start, end) ==
    LET from == RelativeIndex(start, Length(array))
        to == RelativeIndex(end, Length(array))
    IN  [i \in DOMAIN array |-> IF from <= i /\ i < to THEN value ELSE array[i]]

\* [array[i], array[j]] = [array[j], array[i]]
Swap(array, i, j) == [array EXCEPT ![i] = array[j], ![j] = array[i]]

\* The values Math.floor(Math.random() * (i + 1)) can take in the loop of
\* shuffleArray, one for every i from length - 1 down to 1.
RandomDraws(length) ==
    {random \in [1..(length - 1) -> 0..(length - 1)] : \A i \in 1..(length - 1) : random[i] <= i}

\* for (let i = array.length - 1; i > 0; i--) { swap i with random j <= i }
RECURSIVE ShuffleFrom(_, _, _)

\* Mutant: the loop ends one round early (i > 1 for i > 0).
ShuffleFromStopsEarly(array, i, random) ==
    IF ~(i > 1) THEN array
    ELSE ShuffleFrom(Swap(array, i, random[i]), i - 1, random)

ShuffleFrom(array, i, random) ==
    IF ~(i > 0) THEN array
    ELSE ShuffleFrom(Swap(array, i, random[i]), i - 1, random)

shuffleArray(array, random) == ShuffleFrom(array, Length(array) - 1, random)

\* The first two statements of generate: bombs times true, then false.
FilledArray(width, height, bombs) ==
    fill(fill(NewArray(width * height), TRUE, 0, bombs), FALSE, bombs, width * height)

\* MinesweeperBoard.generate(width, height, bombs); new Array throws for a
\* negative length.
generate(width, height, bombs, random) ==
    IF width * height < 0 THEN [threw |-> InvalidArrayLength, object |-> NULL]
    ELSE newMinesweeperBoard(width, height,
                             shuffleArray(FilledArray(width, height, bombs), random))

---------------------------------------------------------------------------
(* Construction as an operation: the program starts without a board and    *)
(* replaces the board by a new one for every round.  The arguments range   *)
(* over the accepted ones and the ones just outside them.                  *)

\* No board object exists.
NoBoard ==
    [tileData |-> NULL, tileState |-> NULL, bombCount |-> 0,
     tilesLeftToOpenToWin |-> 0, boardState |-> "no board"]

InitConstruct == IsBoard(NoBoard) /\ lastOp = NoCall("none", NoError) /\ lib = NULL

\* The requested (width, height): every pair from -1 on that stays within
\* MaxCells cells.
Requests ==
    {d \in ((-1)..MaxCells) \X ((-1)..MaxCells) : d[1] * d[2] <= MaxCells /\ d[1] * d[2] >= -MaxCells}

\* The requested numbers of bombs, from one below to one above what fits.
BombRequests == (-1)..(MaxCells + 1)

\* The lengths of the layouts handed to the constructor.
LayoutLengths == 0..(MaxCells + 1)

\* board = <construction>: the new object replaces the board; a construction
\* that throws yields no object.
Constructed(r) ==
    LET object == IF r.threw = NoError THEN r.object[1] ELSE NoBoard
    IN  /\ tileData' = object.tileData
        /\ tileState' = object.tileState
        /\ bombCount' = object.bombCount
        /\ tilesLeftToOpenToWin' = object.tilesLeftToOpenToWin
        /\ boardState' = object.boardState
        /\ UNCHANGED lib

\* The calls of generate: the arguments, and the values Math.random takes.
GenerateCalls ==
    UNION {[width : {d[1]}, height : {d[2]}, bombs : BombRequests,
            random : RandomDraws(Max(d[1] * d[2], 0))] : d \in Requests}

\* The calls of the constructor.
ConstructorCalls ==
    UNION {[width : {d[1]}, height : {d[2]}, bombsArray : [0..(length - 1) -> BOOLEAN]] :
               d \in Requests, length \in LayoutLengths}

GenerateResult(call) == generate(call.width, call.height, call.bombs, call.random)

ConstructorResult(call) == newMinesweeperBoard(call.width, call.height, call.bombsArray)

Generate ==
    \E call \in GenerateCalls :
        /\ Constructed(GenerateResult(call))
        /\ lastOp' = NoCall("generate", GenerateResult(call).threw)

Construct ==
    \E call \in ConstructorCalls :
        /\ Constructed(ConstructorResult(call))
        /\ lastOp' = NoCall("constructor", ConstructorResult(call).threw)

NextConstruct == Generate \/ Construct

SpecConstruct == InitConstruct /\ [][NextConstruct]_vars

---------------------------------------------------------------------------
(* core/minesweeper-board.ts: the running call                             *)
(* A call works on a record b of the mutable fields of the board, the      *)
(* output it has produced so far (b.log) and the error it has thrown.      *)
(* b.seen is what the callback connected to tileChangedSignal has read: it *)
(* reads getTileState(point) when the signal is emitted for point, and     *)
(* when the call starts it has seen the board as it is.                    *)

Cur == [tileState |-> tileState,
        tilesLeftToOpenToWin |-> tilesLeftToOpenToWin,
        boardState |-> boardState,
        log |-> <<>>,
        path |-> "none",
        threw |-> NoError,
        seen |-> tileState]

\* Signal.emit on tileChangedSignal / boardStateChangedSignal, and console.warn.
TileChanged(point, by) ==
    [sig |-> "tileChanged", point |-> point, value |-> "", by |-> by]

BoardStateChanged(value) ==
    [sig |-> "boardStateChanged", point |-> NoPoint, value |-> value, by |-> "boardState"]

Warn(message, point, by) ==
    [sig |-> "warn", point |-> point, value |-> message, by |-> by]

\* this.board.tileChangedSignal.connect((point) => this.onTileChanged(point)):
\* the callback runs inside emit and reads the tile as it is then.
onTileChanged(b, point) ==
    IF ~isInBounds(b.tileState, point) THEN b
    ELSE [b EXCEPT !.seen.array[pointToArrayIndex(b.tileState, point)[1]] =
                       get(b.tileState, point)]

Output(b, entry) ==
    LET logged == [b EXCEPT !.log = Append(@, entry)]
    IN  IF entry.sig = "tileChanged" THEN onTileChanged(logged, entry.point) ELSE logged

Throw(b, error) == [b EXCEPT !.threw = error, !.path = "threw"]

\* The return statement (or end of function) a public call leaves by.
At(b, path) == [b EXCEPT !.path = path]

\* tileState.<field> = ... on the object stored at point
SetTileState(b, point, ts) ==
    [b EXCEPT !.tileState.array[pointToArrayIndex(b.tileState, point)[1]] = ts]

\* Mutant: the signal is emitted before the field is assigned.
setBoardStateEmitFirst(b, newState) ==
    [Output(b, BoardStateChanged(b.boardState)) EXCEPT !.boardState = newState]

\* private set boardState(newState)
setBoardState(b, newState) ==
    LET b1 == [b EXCEPT !.boardState = newState]
    IN  Output(b1, BoardStateChanged(b1.boardState))

\* Mutant: a tile that is open already is opened again.
OpenRejectedOnlyFlag(ts) ==
    IF ts.state # "default" THEN "Tried to open a tile not in the default state" ELSE ""

\* Mutant: the flag test is missing, so the flood fill opens flagged tiles.
OpenRejectedOnlyOpen(ts) ==
    IF ts.isOpen THEN "Tried to open a tile that was already open" ELSE ""

\* The guard of setTileOpen: the two early returns.
OpenRejected(ts) ==
    IF ts.isOpen THEN "Tried to open a tile that was already open"
    ELSE IF ts.state # "default" THEN "Tried to open a tile not in the default state"
    ELSE ""

\* Mutant: the flood fill never starts.
HasBombNeighborsAlways(td) == TRUE

\* if (tileData.bombNeighbors !== 0) return;
HasBombNeighbors(td) == td.bombNeighbors # 0

RECURSIVE setTileOpen(_, _, _)
RECURSIVE OpenZeroNeighbors(_, _, _)

\* Mutant: the loop ends at the first neighbor outside the board (break for
\* continue).
OpenZeroNeighborsBreak(b, neighbors, i) ==
    IF i > Len(neighbors) \/ b.threw # NoError THEN b
    ELSE IF ~isInBounds(tileData, neighbors[i]) THEN b
    ELSE OpenZeroNeighbors(setTileOpen(b, neighbors[i], FALSE), neighbors, i + 1)

\* for (const neighborPoint of eightWayNeighbors(point)) { ... }
OpenZeroNeighbors(b, neighbors, i) ==
    IF i > Len(neighbors) \/ b.threw # NoError THEN b
    ELSE IF ~isInBounds(tileData, neighbors[i]) THEN OpenZeroNeighbors(b, neighbors, i + 1)
    ELSE OpenZeroNeighbors(setTileOpen(b, neighbors[i], FALSE), neighbors, i + 1)

\* Mutant: the notification is emitted before the two guards.
setTileOpenNotifyFirst(b, point, wasClicked) ==
    LET ts == get(b.tileState, point)
        td == get(tileData, point)
        b0 == Output(b, TileChanged(point, "setTileOpen"))
    IN  IF OpenRejected(ts) # ""
        THEN Output(b0, Warn(OpenRejected(ts), point, "setTileOpen"))
        ELSE LET b1 == SetTileState(b0, point,
                           [ts EXCEPT !.isOpen = TRUE, !.wasClicked = wasClicked])
             IN  IF td.type # "empty" THEN b1
                 ELSE LET b3 == [b1 EXCEPT !.tilesLeftToOpenToWin = @ - 1]
                      IN  IF HasBombNeighbors(td) THEN b3
                          ELSE OpenZeroNeighbors(b3, eightWayNeighbors(point), 1)

setTileOpen(b, point, wasClicked) ==
    LET ts == get(b.tileState, point)
        td == get(tileData, point)
    IN  IF OpenRejected(ts) # ""
        THEN Output(b, Warn(OpenRejected(ts), point, "setTileOpen"))
        ELSE LET b1 == SetTileState(b, point,
                           [ts EXCEPT !.isOpen = TRUE, !.wasClicked = wasClicked])
                 b2 == Output(b1, TileChanged(point, "setTileOpen"))
             IN  IF td.type # "empty" THEN b2
                 ELSE LET b3 == [b2 EXCEPT !.tilesLeftToOpenToWin = @ - 1]
                      IN  IF HasBombNeighbors(td) THEN b3
                          ELSE OpenZeroNeighbors(b3, eightWayNeighbors(point), 1)

\* checkWin's loop: flag every bomb that is not flagged.
RECURSIVE FlagBombs(_, _, _)

\* Mutant: the bombs are flagged without a notification.
FlagBombsSilent(b, pts, i) ==
    IF i > Len(pts) THEN b
    ELSE LET point == pts[i]
             ts == get(b.tileState, point)
         IN  IF get(tileData, point).type # "bomb" THEN FlagBombs(b, pts, i + 1)
             ELSE IF ts.state = "flag" THEN FlagBombs(b, pts, i + 1)
             ELSE FlagBombs(SetTileState(b, point, [ts EXCEPT !.state = "flag"]),
                            pts, i + 1)

FlagBombs(b, pts, i) ==
    IF i > Len(pts) THEN b
    ELSE LET point == pts[i]
             ts == get(b.tileState, point)
         IN  IF get(tileData, point).type # "bomb" THEN FlagBombs(b, pts, i + 1)
             ELSE IF ts.state = "flag" THEN FlagBombs(b, pts, i + 1)
             ELSE FlagBombs(Output(SetTileState(b, point, [ts EXCEPT !.state = "flag"]),
                                   TileChanged(point, "checkWin")),
                            pts, i + 1)

\* Mutant: the win is declared one tile early.
TilesLeftOffByOne(b) == b.tilesLeftToOpenToWin > 1

\* if (this.tilesLeftToOpenToWin !== 0) return;
TilesLeft(b) == b.tilesLeftToOpenToWin # 0

\* Mutant: the win is declared without flagging the bombs.
checkWinNoFlags(b) ==
    IF ~(b.tilesLeftToOpenToWin >= 0) THEN Throw(b, NegativeError)
    ELSE IF TilesLeft(b) THEN b
    ELSE setBoardState(b, "won")

checkWin(b) ==
    IF ~(b.tilesLeftToOpenToWin >= 0) THEN Throw(b, NegativeError)
    ELSE IF TilesLeft(b) THEN b
    ELSE setBoardState(FlagBombs(b, points(tileData), 1), "won")

\* Mutant: misflagged tiles are not revealed.
IsRevealedOnLoseBombsOnly(td, ts) == td.type = "bomb" /\ ts.state = "default"

\* Mutant: every bomb is revealed, flagged or not.
IsRevealedOnLoseAllBombs(td, ts) ==
    td.type = "bomb" \/ (td.type = "empty" /\ ts.state = "flag")

\* Mutant: the loss reveals every tile of the board.
IsRevealedOnLoseEveryTile(td, ts) == TRUE

\* Mutant: the loss reveals every flagged tile, flagged bombs included.
IsRevealedOnLoseFlagged(td, ts) ==
    (td.type = "bomb" /\ ts.state = "default") \/ ts.state = "flag"

\* The tiles handleLose reveals.
IsRevealedOnLose(td, ts) ==
    LET isUnflaggedBomb == td.type = "bomb" /\ ts.state = "default"
        isIncorrectFlag == td.type = "empty" /\ ts.state = "flag"
    IN  isUnflaggedBomb \/ isIncorrectFlag

RECURSIVE Reveal(_, _, _)
Reveal(b, pts, i) ==
    IF i > Len(pts) THEN b
    ELSE LET point == pts[i]
             ts == get(b.tileState, point)
         IN  IF ~IsRevealedOnLose(get(tileData, point), ts) THEN Reveal(b, pts, i + 1)
             ELSE Reveal(Output(SetTileState(b, point, [ts EXCEPT !.isOpen = TRUE]),
                                TileChanged(point, "handleLose")),
                         pts, i + 1)

\* Mutant: the loss reveals the tiles but the game goes on.
handleLoseRevealOnly(b) == Reveal(b, points(tileData), 1)

handleLose(b) == setBoardState(Reveal(b, points(tileData), 1), "lost")

\* Mutant: openTile does not test the state of the tile.
NotInDefaultStateNever(ts) == FALSE

\* if (tileState.state !== "default") { console.warn(...); return; }
NotInDefaultState(ts) == ts.state # "default"

openTile(b, point) ==
    LET ts == get(b.tileState, point)
    IN  IF NotInDefaultState(ts)
        THEN At(Output(b, Warn("Tried to open tile not in the default state", point, "openTile")),
                "openTile:not_default")
        ELSE LET b1 == setTileOpen(b, point, TRUE)
             IN  IF get(tileData, point).type = "bomb"
                 THEN handleLose(At(b1, "openTile:handleLose"))
                 ELSE checkWin(At(b1, "openTile:checkWin"))

\* Array.from(eightWayNeighbors(point)).filter(isInBounds)
InBoundsNeighbors(point) ==
    SelectSeq(eightWayNeighbors(point), LAMBDA p : isInBounds(tileData, p))

IsFlagNeighbor(ts) == ~ts.isOpen /\ ts.state = "flag"

\* Mutant: the flag test is missing from the filter.
IsNeighborToOpenAnyClosed(ts) == ~ts.isOpen

IsNeighborToOpen(ts) == ~ts.isOpen /\ ts.state # "flag"

\* Mutant: more flags than bombs are accepted too.
EnoughFlagsAtLeast(flagCount, bombNeighbors) == flagCount >= bombNeighbors

\* We can only open neighbors if there are enough flags nearby.
EnoughFlags(flagCount, bombNeighbors) == flagCount = bombNeighbors

\* Mutant: the chord opens the first neighbor only.
OpenEachFirstOnly(b, pts, i) ==
    IF Len(pts) = 0 THEN b ELSE setTileOpen(b, pts[1], TRUE)

RECURSIVE OpenEach(_, _, _)
OpenEach(b, pts, i) ==
    IF i > Len(pts) \/ b.threw # NoError THEN b
    ELSE OpenEach(setTileOpen(b, pts[i], TRUE), pts, i + 1)

\* Second loop of openNeighbors: is one of the opened neighbors a bomb?
AnyBomb(pts) == \E i \in 1..Len(pts) : get(tileData, pts[i]).type = "bomb"

openNeighbors(b, point) ==
    LET ts == get(b.tileState, point)
        td == get(tileData, point)
        neighbors == InBoundsNeighbors(point)
        flagNeighbors == SelectSeq(neighbors, LAMBDA p : IsFlagNeighbor(get(b.tileState, p)))
        neighborsToOpen == SelectSeq(neighbors, LAMBDA p : IsNeighborToOpen(get(b.tileState, p)))
    IN  IF ~ts.isOpen
        THEN At(Output(b, Warn("Tried to open neighbors of a closed tile", point, "openNeighbors")),
                "openNeighbors:closed")
        ELSE IF td.type # "empty" THEN Throw(b, BombOpenError)
        ELSE IF ~EnoughFlags(Len(flagNeighbors), td.bombNeighbors)
        THEN At(b, "openNeighbors:not_enough_flags")
        ELSE LET b1 == OpenEach(b, neighborsToOpen, 1)
             IN  IF AnyBomb(neighborsToOpen)
                 THEN handleLose(At(b1, "openNeighbors:handleLose"))
                 ELSE checkWin(At(b1, "openNeighbors:checkWin"))

\* Mutant: the board is set to active on every call.
StartAlways(b) == setBoardState(b, "active")

\* Mutant: the board is never started.
StartNever(b) == b

\* if (this.boardState === "not_started") this.boardState = "active";
StartIfNotStarted(b) ==
    IF b.boardState = "not_started" THEN setBoardState(b, "active") ELSE b

\* Mutant: only a lost board is treated as finished.
NotActiveOnlyLost(b) == b.boardState = "lost"

\* if (this.boardState !== "active") return;
NotActive(b) == b.boardState # "active"

clickTile(b, point) ==
    LET b1 == StartIfNotStarted(b)
    IN  IF NotActive(b1)
        THEN At(Output(b1, Warn("Tried to click on tile when the board is not in the active state",
                                NoPoint, "clickTile")),
                "clickTile:not_active")
        ELSE IF getThrows(b1.tileState, point) THEN Throw(b1, OutOfBoundsError)
        ELSE IF get(b1.tileState, point).isOpen THEN openNeighbors(b1, point)
        ELSE openTile(b1, point)

\* Mutant: a toggle only ever sets the flag.
ToggleFlagSetOnly(state) == "flag"

ToggleFlag(state) == IF state = "default" THEN "flag" ELSE "default"

\* Mutant: the flag of an open tile is toggled too.
changeTileStateOpenToo(b, point) ==
    LET b1 == StartIfNotStarted(b)
    IN  IF NotActive(b1) THEN At(b1, "changeTileState:not_active")
        ELSE IF getThrows(b1.tileState, point) THEN Throw(b1, OutOfBoundsError)
        ELSE LET ts == get(b1.tileState, point)
             IN  At(Output(SetTileState(b1, point,
                                        [ts EXCEPT !.state = ToggleFlag(ts.state)]),
                           TileChanged(point, "changeTileState")),
                    IF ts.isOpen THEN "changeTileState:open" ELSE "changeTileState:toggled")

changeTileState(b, point) ==
    LET b1 == StartIfNotStarted(b)
    IN  IF NotActive(b1) THEN At(b1, "changeTileState:not_active")
        ELSE IF getThrows(b1.tileState, point) THEN Throw(b1, OutOfBoundsError)
        ELSE LET ts == get(b1.tileState, point)
             IN  IF ts.isOpen THEN At(b1, "changeTileState:open")
                 ELSE At(Output(SetTileState(b1, point,
                                             [ts EXCEPT !.state = ToggleFlag(ts.state)]),
                                TileChanged(point, "changeTileState")),
                         "changeTileState:toggled")

---------------------------------------------------------------------------
(* The external driver: any sequence of calls, at any point of the board   *)
(* or at a point outside it (left of the first column, below the last row).*)

OutsidePoints == {Point(-1, 0), Point(0, tileData.height)}

BoardPoints == {Point(x, y) : x \in 0..(tileData.width - 1), y \in 0..(tileData.height - 1)}

InputPoints == BoardPoints \cup OutsidePoints

\* The messages console.warn printed during the call.
Warned(b) == {b.log[i].value : i \in {j \in 1..Len(b.log) : b.log[j].sig = "warn"}}

\* Whether the call made the transition not_started -> active.
Started(b) ==
    \E i \in 1..Len(b.log) : b.log[i].sig = "boardStateChanged" /\ b.log[i].value = "active"

\* How many tiles the call took from closed to open.
Opened(b) ==
    Cardinality({p \in BoardPoints : ~get(tileState, p).isOpen /\ get(b.tileState, p).isOpen})

\* The board after a call that ended as b.
Return(name, b) ==
    /\ tileState' = b.tileState
    /\ tilesLeftToOpenToWin' = b.tilesLeftToOpenToWin
    /\ boardState' = b.boardState
    /\ lastOp' = [name |-> name, path |-> b.path, threw |-> b.threw,
                  started |-> Started(b), warned |-> Warned(b), opened |-> Opened(b)]
    /\ UNCHANGED <<tileData, bombCount, lib>>

ClickTileAt(point) == Return("clickTile", clickTile(Cur, point))

ChangeTileStateAt(point) == Return("changeTileState", changeTileState(Cur, point))

ClickTile == \E point \in InputPoints : ClickTileAt(point)

ChangeTileState == \E point \in InputPoints : ChangeTileStateAt(point)

Next == ClickTile \/ ChangeTileState

Spec == Init /\ [][Next]_vars

---------------------------------------------------------------------------
(* Vocabulary of the properties.  A property of an operation is stated for *)
(* every call the driver can make in the current state: Result(call) is    *)
(* the board, the output and the error that call ends with.                *)

Calls == [name : {"clickTile", "changeTileState"}, point : InputPoints]

Result(call) ==
    IF call.name = "clickTile" THEN clickTile(Cur, call.point)
    ELSE changeTileState(Cur, call.point)

\* The step from the current state is this call.
Took(call) == Return(call.name, Result(call))

Abs(n) == IF n < 0 THEN -n ELSE n

\* q is one of the eight cells around p.
Adjacent(p, q) == p # q /\ Abs(p.x - q.x) <= 1 /\ Abs(p.y - q.y) <= 1

IsBomb(p) == get(tileData, p).type = "bomb"

IsEmpty(p) == get(tileData, p).type = "empty"

IsZero(p) == IsEmpty(p) /\ get(tileData, p).bombNeighbors = 0

\* Fields of the tile at p in the grid g (tileState, or a result's tileState).
IsOpenIn(g, p) == get(g, p).isOpen

IsFlagIn(g, p) == get(g, p).state = "flag"

\* Tiles closed before the call and open after it.
OpenedBy(b) == {p \in BoardPoints : ~IsOpenIn(tileState, p) /\ IsOpenIn(b.tileState, p)}

\* The notifications of a call, in order: tile-changed points emitted by the
\* function `by`, and the values emitted on the board-state signal.
TileEvents(b, by) ==
    LET hits == SelectSeq(b.log, LAMBDA e : e.sig = "tileChanged" /\ e.by = by)
    IN  [i \in 1..Len(hits) |-> hits[i].point]

AllTileEvents(b) ==
    LET hits == SelectSeq(b.log, LAMBDA e : e.sig = "tileChanged")
    IN  [i \in 1..Len(hits) |-> hits[i].point]

BoardEvents(b) ==
    LET hits == SelectSeq(b.log, LAMBDA e : e.sig = "boardStateChanged")
    IN  [i \in 1..Len(hits) |-> hits[i].value]

Times(seq, v) == Cardinality({i \in 1..Len(seq) : seq[i] = v})

Emits(b) == Len(AllTileEvents(b)) + Len(BoardEvents(b))

\* The call changed nothing on the board.
BoardUntouched(b) ==
    /\ b.tileState = tileState
    /\ b.tilesLeftToOpenToWin = tilesLeftToOpenToWin
    /\ b.boardState = boardState

---------------------------------------------------------------------------
(* C1 *)

LegalMoves ==
    {<<"not_started", "active">>, <<"active", "won">>, <<"active", "lost">>}

\* Every value _boardState takes during a call, the value before it first.
Trajectory(b) == <<boardState>> \o BoardEvents(b)

\* C1: during any call made in any reachable state, every assignment to the
\* board state is a move not_started -> active, active -> won or active ->
\* lost, and the call ends in the last state assigned: the state never moves
\* backwards, never between won and lost, and never leaves won or lost.
C1_StateMachine ==
    \A call \in Calls :
        LET b == Result(call)
            t == Trajectory(b)
        IN  /\ \A i \in 1..(Len(t) - 1) : <<t[i], t[i + 1]>> \in LegalMoves
            /\ b.boardState = t[Len(t)]

\* A first call has gone through active to a terminal state, and a later call
\* was made on the finished board.
C1_Witness ==
    /\ boardState \in {"won", "lost"}
    /\ lastOp.path \in {"clickTile:not_active", "changeTileState:not_active"}

---------------------------------------------------------------------------
(* C2 *)

EmptyOpenedBy(b) == {p \in OpenedBy(b) : IsEmpty(p)}

\* The counter reaches 0 in exactly the calls that turn the board to won, and
\* a won board has every bomb flagged.
WonWhenCounterHitsZero(b) ==
    /\ (tilesLeftToOpenToWin # 0 /\ b.tilesLeftToOpenToWin = 0)
           <=> (boardState # "won" /\ b.boardState = "won")
    /\ b.tilesLeftToOpenToWin = 0 /\ tilesLeftToOpenToWin # 0 => b.boardState # "lost"
    /\ b.boardState = "won" => \A p \in BoardPoints : IsBomb(p) => IsFlagIn(b.tileState, p)

\* C2 as claimed: every call lowers the counter by the number of Empty tiles
\* it takes from closed to open, the board turns won in exactly the call in
\* which the counter becomes 0, and then every bomb is flagged.
C2_Original ==
    [][\A call \in Calls :
          Took(call) =>
              LET b == Result(call)
              IN  /\ tilesLeftToOpenToWin - b.tilesLeftToOpenToWin
                         = Cardinality(EmptyOpenedBy(b))
                  /\ WonWhenCounterHitsZero(b)]_vars

\* C2 (amended): every call lowers the counter by the number of Empty tiles
\* it opens through setTileOpen, which are the Empty tiles that go from
\* closed to open and are not flagged; the flagged Empty tiles the loss
\* reveal forces open do not lower it.  The board turns won in exactly the
\* call in which the counter becomes 0 (never lost), with every bomb flagged.
C2_WinCounter ==
    \A call \in Calls :
        LET b == Result(call)
        IN  /\ tilesLeftToOpenToWin - b.tilesLeftToOpenToWin
                   = Cardinality({p \in EmptyOpenedBy(b) : ~IsFlagIn(b.tileState, p)})
            /\ tilesLeftToOpenToWin - b.tilesLeftToOpenToWin
                   = Cardinality({p \in BoardPoints :
                                     IsEmpty(p) /\ Times(TileEvents(b, "setTileOpen"), p) = 1})
            /\ \A p \in EmptyOpenedBy(b) :
                   IsFlagIn(b.tileState, p) => Times(TileEvents(b, "handleLose"), p) = 1
            /\ WonWhenCounterHitsZero(b)

\* A chord opened several tiles at once and won the game.
C2_Witness ==
    /\ lastOp.path = "openNeighbors:checkWin"
    /\ lastOp.opened >= 2
    /\ boardState = "won"
    /\ tilesLeftToOpenToWin = 0

---------------------------------------------------------------------------
(* C3 *)

Size == tileData.width * tileData.height

OpenEmpty == {p \in BoardPoints : IsEmpty(p) /\ IsOpenIn(tileState, p)}

\* C3 as claimed: in every reachable state the counter is width * height -
\* bombCount minus the number of open Empty tiles, and is not negative.
C3_Original ==
    /\ tilesLeftToOpenToWin = Size - bombCount - Cardinality(OpenEmpty)
    /\ tilesLeftToOpenToWin >= 0

\* C3 (amended): in every reachable state the counter is width * height -
\* bombCount minus the number of Empty tiles that are open and not flagged
\* and is not negative; while the board is not lost these are all the open
\* Empty tiles.  On a lost board the flagged Empty tiles that the reveal
\* forced open are not counted.
C3_Counter ==
    /\ tilesLeftToOpenToWin
           = Size - bombCount - Cardinality({p \in OpenEmpty : ~IsFlagIn(tileState, p)})
    /\ boardState # "lost" => tilesLeftToOpenToWin = Size - bombCount - Cardinality(OpenEmpty)
    /\ tilesLeftToOpenToWin >= 0

\* A lost board on which the player had opened an Empty tile and the reveal
\* has forced a misflagged Empty tile open.
C3_Witness ==
    /\ boardState = "lost"
    /\ \E p \in OpenEmpty : IsFlagIn(tileState, p)
    /\ \E p \in OpenEmpty : ~IsFlagIn(tileState, p)

---------------------------------------------------------------------------
(* C4 *)

FlaggedBefore(p) == IsFlagIn(tileState, p)

\* The tiles the loss reveal is to show: unflagged bombs and misflagged
\* Empty tiles (a click never changes a flag before the reveal).
RevealSet ==
    {p \in BoardPoints : (IsBomb(p) /\ ~FlaggedBefore(p)) \/ (IsEmpty(p) /\ FlaggedBefore(p))}

OpensBomb(b) == \E p \in OpenedBy(b) : IsBomb(p)

IsChord(call) ==
    /\ call.name = "clickTile"
    /\ call.point \in BoardPoints
    /\ boardState = "active"
    /\ IsOpenIn(tileState, call.point)

\* C4 as claimed: a call that opens a bomb leaves every bomb open and every
\* flagged Empty tile open, and opens nothing but bombs and flagged Empty tiles.
C4_Original ==
    [][\A call \in Calls :
          Took(call) =>
              LET b == Result(call)
              IN  OpensBomb(b) =>
                      /\ \A p \in BoardPoints : IsBomb(p) => IsOpenIn(b.tileState, p)
                      /\ \A p \in BoardPoints :
                             IsEmpty(p) /\ IsFlagIn(b.tileState, p) => IsOpenIn(b.tileState, p)
                      /\ \A p \in OpenedBy(b) :
                             IsBomb(p) \/ (IsEmpty(p) /\ IsFlagIn(b.tileState, p))]_vars

\* C4 (amended): a call that opens a bomb leaves every bomb that is not
\* flagged open and every flagged Empty tile open, while flagged bombs stay
\* closed.  A single click opens no other tile; a chord may also have opened
\* closed unflagged Empty tiles first, each a neighbor of the chorded tile
\* or next to a zero-count tile that the same call opened.
C4_LossReveal ==
    \A call \in Calls :
        LET b == Result(call)
        IN  OpensBomb(b) =>
                /\ \A p \in BoardPoints :
                       IsBomb(p) => (IsOpenIn(b.tileState, p) <=> ~IsFlagIn(b.tileState, p))
                /\ \A p \in BoardPoints :
                       IsEmpty(p) /\ IsFlagIn(b.tileState, p) => IsOpenIn(b.tileState, p)
                /\ \A p \in OpenedBy(b) \ RevealSet :
                       /\ IsChord(call)
                       /\ IsEmpty(p) /\ ~IsFlagIn(b.tileState, p)
                       /\ \/ Adjacent(call.point, p)
                          \/ \E z \in OpenedBy(b) : IsZero(z) /\ Adjacent(z, p)

\* A chord opened a bomb: the misflagged tile is revealed and the correctly
\* flagged bomb is still closed.
C4_Witness ==
    /\ lastOp.path = "openNeighbors:handleLose"
    /\ boardState = "lost"
    /\ \E p \in BoardPoints : IsBomb(p) /\ IsFlagIn(tileState, p) /\ ~IsOpenIn(tileState, p)
    /\ \E p \in BoardPoints : IsEmpty(p) /\ IsFlagIn(tileState, p) /\ IsOpenIn(tileState, p)

---------------------------------------------------------------------------
(* C5 *)

LossTriggered(b) == boardState # "lost" /\ b.boardState = "lost"

\* The log is: output of the opening phase, then the reveal's notifications,
\* then the board-state notification "lost", with nothing after it.
RevealThenLost(b) ==
    LET n == Len(b.log)
        k == Len(TileEvents(b, "handleLose"))
    IN  /\ n >= k + 1
        /\ b.log[n] = BoardStateChanged("lost")
        /\ \A i \in (n - k)..(n - 1) : b.log[i].sig = "tileChanged" /\ b.log[i].by = "handleLose"
        /\ \A i \in 1..(n - k - 1) : b.log[i].by \in {"setTileOpen", "boardState"}

\* C5: when a call triggers the loss, the reveal opens and notifies exactly
\* once each tile that is an unflagged bomb or a flagged Empty tile, also the
\* bomb the call itself has just opened (notified a second time); it touches
\* no other tile (flagged bombs stay closed, other tiles keep what the opening
\* phase left) and changes no flag; the board state is set to lost after it.
C5_Reveal ==
    \A call \in Calls :
        LET b == Result(call)
            revealed == TileEvents(b, "handleLose")
            opened == TileEvents(b, "setTileOpen")
        IN  LossTriggered(b) =>
                /\ \A p \in RevealSet : IsOpenIn(b.tileState, p) /\ Times(revealed, p) = 1
                /\ \A p \in BoardPoints \ RevealSet :
                       /\ Times(revealed, p) = 0
                       /\ Times(opened, p) = 0 => get(b.tileState, p) = get(tileState, p)
                /\ \A p \in BoardPoints :
                       /\ IsFlagIn(b.tileState, p) <=> FlaggedBefore(p)
                       /\ IsBomb(p) /\ FlaggedBefore(p) => ~IsOpenIn(b.tileState, p)
                       /\ Times(opened, p) = 0 =>
                              get(b.tileState, p).wasClicked = get(tileState, p).wasClicked
                /\ \E p \in RevealSet : IsBomb(p) /\ Times(opened, p) = 1 /\ Times(revealed, p) = 1
                /\ RevealThenLost(b)
                /\ b.threw = NoError

\* A single click on a bomb lost the game: another unflagged bomb and a
\* misflagged tile were revealed, a flagged bomb was not.
C5_Witness ==
    /\ lastOp.path = "openTile:handleLose"
    /\ boardState = "lost"
    /\ \E p \in BoardPoints : IsBomb(p) /\ IsOpenIn(tileState, p) /\ get(tileState, p).wasClicked
    /\ \E p \in BoardPoints : IsEmpty(p) /\ IsFlagIn(tileState, p) /\ IsOpenIn(tileState, p)
    /\ \E p \in BoardPoints : IsBomb(p) /\ IsFlagIn(tileState, p) /\ ~IsOpenIn(tileState, p)

---------------------------------------------------------------------------
(* C6 *)

\* The in-bounds neighbors of point that are closed and flagged.
FlaggedNeighbors(point) ==
    {q \in BoardPoints :
        Adjacent(point, q) /\ ~IsOpenIn(tileState, q) /\ IsFlagIn(tileState, q)}

BombNeighbors(point) == get(tileData, point).bombNeighbors

\* C6: a click on an open Empty tile of an active board whose number of
\* closed flagged neighbors differs from its bombNeighbors changes no tile,
\* not the counter, not the board state, and emits nothing; a chord opens
\* tiles only when the two numbers are equal.
C6_ChordAllOrNothing ==
    \A call \in Calls :
        LET b == Result(call)
        IN  IsChord(call) /\ IsEmpty(call.point) =>
                /\ Cardinality(FlaggedNeighbors(call.point)) # BombNeighbors(call.point) =>
                       BoardUntouched(b) /\ Emits(b) = 0 /\ b.threw = NoError
                /\ OpenedBy(b) # {} =>
                       Cardinality(FlaggedNeighbors(call.point)) = BombNeighbors(call.point)

OpenTiles == {p \in BoardPoints : IsOpenIn(tileState, p)}

\* A chord was refused on the only open tile, which has one flagged neighbor
\* more than its number.
C6_Witness ==
    /\ lastOp.path = "openNeighbors:not_enough_flags"
    /\ Cardinality(OpenTiles) = 1
    /\ \E p \in OpenTiles :
           IsEmpty(p) /\ Cardinality(FlaggedNeighbors(p)) = BombNeighbors(p) + 1

---------------------------------------------------------------------------
(* C7 *)

\* The in-bounds neighbors of point that are closed and not flagged.
ClosedUnflaggedNeighbors(point) ==
    {q \in BoardPoints :
        Adjacent(point, q) /\ ~IsOpenIn(tileState, q) /\ ~IsFlagIn(tileState, q)}

\* No tile is opened after the outcome has started to be decided.
OpenedBeforeDecided(b) ==
    \A i, j \in 1..Len(b.log) :
        i < j /\ b.log[i].by \in {"handleLose", "checkWin", "boardState"}
            => b.log[j].by # "setTileOpen"

\* C7: a chord with as many closed flagged neighbors as bombNeighbors opens
\* every neighbor that was closed and unflagged, with wasClicked = TRUE unless
\* the flood fill of a zero-count tile opened in the same call reached it
\* first; the outcome is decided after all of them are open: lost when one
\* of them is a bomb, otherwise the win check (won when the counter is 0).
C7_ChordOpens ==
    \A call \in Calls :
        LET b == Result(call)
            toOpen == ClosedUnflaggedNeighbors(call.point)
        IN  /\ IsChord(call) /\ IsEmpty(call.point)
            /\ Cardinality(FlaggedNeighbors(call.point)) = BombNeighbors(call.point)
            =>  /\ \A q \in toOpen :
                       /\ IsOpenIn(b.tileState, q)
                       /\ Times(TileEvents(b, "setTileOpen"), q) = 1
                       /\ \/ get(b.tileState, q).wasClicked
                          \/ \E z \in OpenedBy(b) : IsZero(z) /\ Adjacent(z, q)
                /\ OpenedBeforeDecided(b)
                /\ b.boardState =
                       IF \E q \in toOpen : IsBomb(q) THEN "lost"
                       ELSE IF b.tilesLeftToOpenToWin = 0 THEN "won"
                       ELSE "active"
                /\ b.threw = NoError

\* A chord opened a bomb together with another neighbor and lost.
C7_Witness ==
    /\ lastOp.path = "openNeighbors:handleLose"
    /\ lastOp.opened >= 2
    /\ \E p \in BoardPoints :
           IsEmpty(p) /\ IsOpenIn(tileState, p) /\ ~IsFlagIn(tileState, p)
               /\ Cardinality({q \in OpenTiles : Adjacent(p, q) /\ get(tileState, q).wasClicked}) >= 2

---------------------------------------------------------------------------
(* C8 *)

AlreadyOpen == "Tried to open a tile that was already open"

\* C8: setTileOpen on a tile that is already open changes no tile and not
\* the counter and emits no notification; within any call, the flood fill
\* and chord cascades included, setTileOpen opens and notifies a tile at
\* most once, only a tile that was closed, and the counter drops by one for
\* each Empty tile so opened.
C8_OpenOnce ==
    /\ \A p \in OpenTiles :
           \A wasClicked \in BOOLEAN :
               LET r == setTileOpen(Cur, p, wasClicked)
               IN  /\ r.tileState = tileState
                   /\ r.tilesLeftToOpenToWin = tilesLeftToOpenToWin
                   /\ Emits(r) = 0
    /\ \A call \in Calls :
           LET b == Result(call)
               opened == TileEvents(b, "setTileOpen")
           IN  /\ \A p \in BoardPoints :
                      /\ Times(opened, p) <= 1
                      /\ Times(opened, p) = 1 => p \in OpenedBy(b)
               /\ tilesLeftToOpenToWin - b.tilesLeftToOpenToWin
                      = Cardinality({p \in BoardPoints : IsEmpty(p) /\ Times(opened, p) = 1})

\* A flood fill opened several tiles and came back to a tile it had opened.
C8_Witness ==
    /\ AlreadyOpen \in lastOp.warned
    /\ lastOp.path = "openTile:checkWin"
    /\ lastOp.opened >= 2

---------------------------------------------------------------------------
(* C9 *)

\* C9: on a won or lost board every clickTile and changeTileState call, at
\* any point inside or outside the board, changes no tile, not the counter,
\* not the board state, and emits no notification.
C9_TerminalNoOp ==
    \A call \in Calls :
        LET b == Result(call)
        IN  boardState \in {"won", "lost"} =>
                BoardUntouched(b) /\ Emits(b) = 0 /\ b.threw = NoError

\* A flag toggle was tried on a won board, and a click on a lost one.
C9_Witness ==
    \/ boardState = "won" /\ lastOp.path = "changeTileState:not_active" /\ bombCount > 0
    \/ boardState = "lost" /\ lastOp.path = "clickTile:not_active"
           /\ \E p \in BoardPoints : ~IsOpenIn(tileState, p)

---------------------------------------------------------------------------
(* C10 *)

\* C10: the board is not_started exactly as long as no call has been made;
\* the first call, whatever its point, first sets the board to active and
\* emits "active" on the board-state signal, before any other output.
C10_LazyStart ==
    /\ boardState = "not_started" <=> lastOp.name = "none"
    /\ \A call \in Calls :
           LET b == Result(call)
           IN  boardState = "not_started" =>
                   /\ Len(b.log) >= 1
                   /\ b.log[1] = BoardStateChanged("active")
                   /\ b.boardState # "not_started"

\* The first call was a click on a bomb: it started the game and lost it.
C10_Witness ==
    /\ lastOp.started
    /\ lastOp.name = "clickTile"
    /\ boardState = "lost"

---------------------------------------------------------------------------
(* C11 *)

\* C11: changeTileState at a point of a not_started or active board returns
\* normally with the board active; on an open tile it changes no tile and
\* emits no tile-changed notification; on a closed tile it flips the state
\* default <-> flag, keeps isOpen and wasClicked, and emits exactly one
\* tile-changed notification, for that point.  The counter and every other
\* tile are unchanged either way.
C11_ToggleFlag ==
    \A p \in BoardPoints :
        boardState \in {"not_started", "active"} =>
            LET b == changeTileState(Cur, p)
                old == get(tileState, p)
                new == get(b.tileState, p)
            IN  /\ b.threw = NoError
                /\ b.boardState = "active"
                /\ b.tilesLeftToOpenToWin = tilesLeftToOpenToWin
                /\ \A q \in BoardPoints \ {p} : get(b.tileState, q) = get(tileState, q)
                /\ IF old.isOpen
                   THEN new = old /\ AllTileEvents(b) = <<>>
                   ELSE /\ new = [old EXCEPT
                                     !.state = IF old.state = "default" THEN "flag" ELSE "default"]
                        /\ AllTileEvents(b) = <<p>>

\* In a running game with an open tile the last call took a flag off again,
\* so that no tile is flagged.
C11_Witness ==
    /\ boardState = "active"
    /\ lastOp.path = "changeTileState:toggled"
    /\ \E p \in BoardPoints : IsOpenIn(tileState, p)
    /\ \A p \in BoardPoints : ~IsFlagIn(tileState, p)

---------------------------------------------------------------------------
(* C12 *)

\* C12: clickTile on a closed flagged tile, bomb or not, returns normally
\* and changes nothing: no tile, not the counter, not the board state, and
\* it emits no tile-changed and no board-state notification.
C12_FlaggedClick ==
    \A p \in BoardPoints :
        ~IsOpenIn(tileState, p) /\ IsFlagIn(tileState, p) =>
            LET b == clickTile(Cur, p)
            IN  /\ BoardUntouched(b)
                /\ Emits(b) = 0
                /\ b.threw = NoError

\* A flagged bomb was clicked in a running game and the game goes on.
C12_Witness ==
    /\ boardState = "active"
    /\ lastOp.path = "openTile:not_default"
    /\ \E p \in BoardPoints : IsBomb(p) /\ IsFlagIn(tileState, p)
    /\ \A p \in BoardPoints : IsFlagIn(tileState, p) => IsBomb(p)

---------------------------------------------------------------------------
(* The end-to-end scenarios: the same calls on one fixed board, by a       *)
(* driver that keeps at most MaxFlags flags on the board.                  *)

MaxFlags == 1

FlagCount == Cardinality({p \in BoardPoints : IsFlagIn(tileState, p)})

\* The driver may take a flag off, or set one while fewer than MaxFlags are set.
MayToggle(point) ==
    \/ FlagCount < MaxFlags
    \/ isInBounds(tileState, point) /\ IsFlagIn(tileState, point)

ChangeTileStateFew == \E point \in InputPoints : MayToggle(point) /\ ChangeTileStateAt(point)

NextFew == ClickTile \/ ChangeTileStateFew

\* A row of 8 tiles with its only bomb at index 0.
RowBombs == [i \in 0..7 |-> i = 0]

InitRow == MinesweeperBoard(8, 1, RowBombs)

SpecRow == InitRow /\ [][NextFew]_vars

\* 3 x 3 tiles with the only bomb in the middle, at (1, 1).
SquareBombs == [i \in 0..8 |-> i = 4]

InitSquare == MinesweeperBoard(3, 3, SquareBombs)

SpecSquare == InitSquare /\ [][NextFew]_vars

---------------------------------------------------------------------------
(* C13 *)

\* No tile of the board has been opened or flagged.
Untouched == \A p \in BoardPoints : get(tileState, p) = InitialTileState

EmptyPoints == {p \in BoardPoints : IsEmpty(p)}

RowClick(x) == [name |-> "clickTile", point |-> Point(x, 0)]

\* C13 as claimed: on the row with its bomb at (0,0), a first
\* clickTile((1,0)) opens every tile that is not a bomb and leaves the board
\* won with the bomb flagged.
C13_Original ==
    [][(Untouched /\ Took(RowClick(1))) =>
           LET b == Result(RowClick(1))
           IN  /\ \A p \in EmptyPoints : IsOpenIn(b.tileState, p)
               /\ b.boardState = "won"
               /\ IsFlagIn(b.tileState, Point(0, 0))]_vars

\* C13 (amended): on the row with its bomb at (0,0), a first clickTile at
\* any of (2,0) .. (7,0), the tiles without a bomb neighbor, opens every
\* tile that is not a bomb through the flood fill and leaves the board won
\* with the bomb at (0,0) flagged and closed.  A first clickTile((1,0))
\* opens (1,0) alone, whose bombNeighbors is 1: the board stays active with
\* 6 tiles left to open and the bomb unflagged.
C13_RowFloodFill ==
    Untouched =>
        /\ get(tileData, Point(1, 0)) = EmptyTile(1)
        /\ LET b == Result(RowClick(1))
           IN  /\ OpenedBy(b) = {Point(1, 0)}
               /\ b.boardState = "active"
               /\ b.tilesLeftToOpenToWin = 6
               /\ get(b.tileState, Point(0, 0)) = InitialTileState
               /\ b.threw = NoError
        /\ \A x \in 2..7 :
               LET b == Result(RowClick(x))
               IN  /\ get(tileData, Point(x, 0)) = EmptyTile(0)
                   /\ OpenedBy(b) = EmptyPoints
                   /\ \A p \in EmptyPoints :
                          /\ Times(TileEvents(b, "setTileOpen"), p) = 1
                          /\ get(b.tileState, p).wasClicked = (p = Point(x, 0))
                   /\ b.tilesLeftToOpenToWin = 0
                   /\ b.boardState = "won"
                   /\ get(b.tileState, Point(0, 0))
                          = [state |-> "flag", isOpen |-> FALSE, wasClicked |-> FALSE]
                   /\ b.threw = NoError

\* The first call of the game was a click that opened all 7 Empty tiles of
\* the row and won.
C13_Witness ==
    /\ tileData.width = 8 /\ tileData.height = 1
    /\ lastOp.name = "clickTile"
    /\ lastOp.started
    /\ lastOp.opened = 7
    /\ boardState = "won"
    /\ IsFlagIn(tileState, Point(0, 0))

---------------------------------------------------------------------------
(* C14 *)

Corner == Point(0, 0)

Middle == Point(1, 1)

ClickedOpen == [state |-> "default", isOpen |-> TRUE, wasClicked |-> TRUE]

FlaggedClosed == [state |-> "flag", isOpen |-> FALSE, wasClicked |-> FALSE]

\* The board after changeTileState((1,1)) and clickTile((0,0)) on the fresh
\* 3 x 3 board: the bomb flagged, the corner open, nothing else touched.
FlaggedAndOpened ==
    /\ boardState = "active"
    /\ get(tileState, Middle) = FlaggedClosed
    /\ get(tileState, Corner) = ClickedOpen
    /\ \A p \in BoardPoints \ {Middle, Corner} : get(tileState, p) = InitialTileState

\* C14 as claimed: after changeTileState((1,1)) and clickTile((0,0)), a
\* second clickTile((0,0)) opens the 7 remaining closed unflagged tiles in
\* that call and the board is won.
C14_Original ==
    [][(FlaggedAndOpened /\ Took([name |-> "clickTile", point |-> Corner])) =>
           LET b == Result([name |-> "clickTile", point |-> Corner])
           IN  /\ Cardinality(OpenedBy(b)) = 7
               /\ b.boardState = "won"]_vars

\* C14 (amended): on the fresh 3 x 3 board with its bomb at (1,1), after
\* changeTileState((1,1)) and clickTile((0,0)), which opens (0,0) alone, a
\* second clickTile((0,0)) is a chord that opens the two closed unflagged
\* neighbors of (0,0), which are (1,0) and (0,1), each with wasClicked, and
\* nothing else, since their bombNeighbors is 1: 5 tiles are left to open
\* and the board stays active.
C14_SquareChord ==
    (Untouched /\ boardState = "not_started") =>
        LET s1 == changeTileState(Cur, Middle)
            s2 == clickTile(s1, Corner)
            s3 == clickTile(s2, Corner)
        IN  /\ \A p \in EmptyPoints : get(tileData, p) = EmptyTile(1)
            /\ s1.tileState = [tileState EXCEPT !.array[4] = FlaggedClosed]
            /\ s2.tileState = [s1.tileState EXCEPT !.array[0] = ClickedOpen]
            /\ s2.tilesLeftToOpenToWin = 7
            /\ s2.boardState = "active"
            /\ s3.tileState = [s2.tileState EXCEPT !.array[1] = ClickedOpen,
                                                   !.array[3] = ClickedOpen]
            /\ s3.tilesLeftToOpenToWin = 5
            /\ s3.boardState = "active"
            /\ AllTileEvents(s3) = <<Middle, Corner, Point(0, 1), Point(1, 0)>>
            /\ BoardEvents(s3) = <<"active">>
            /\ s3.threw = NoError

\* The chord on the corner has just opened its two neighbors: three tiles
\* are open, the bomb is flagged and the game goes on.
C14_Witness ==
    /\ tileData.width = 3 /\ tileData.height = 3
    /\ boardState = "active"
    /\ lastOp.path = "openNeighbors:checkWin"
    /\ lastOp.opened = 2
    /\ tilesLeftToOpenToWin = 5
    /\ get(tileState, Middle) = FlaggedClosed
    /\ \A p \in {Corner, Point(1, 0), Point(0, 1)} : get(tileState, p) = ClickedOpen

---------------------------------------------------------------------------
(* C15 *)

\* C15: on the row with its only bomb at (0,0), a first clickTile((0,0))
\* returns normally and leaves the board lost, tile (0,0) open with
\* wasClicked, and every other tile closed, unflagged and not clicked; the
\* counter is untouched.
C15_RowFirstClickBomb ==
    Untouched =>
        LET b == Result(RowClick(0))
        IN  /\ IsBomb(Point(0, 0))
            /\ b.boardState = "lost"
            /\ get(b.tileState, Point(0, 0)) = ClickedOpen
            /\ \A p \in BoardPoints \ {Point(0, 0)} : get(b.tileState, p) = InitialTileState
            /\ b.tilesLeftToOpenToWin = tilesLeftToOpenToWin
            /\ b.threw = NoError

\* The first call of the game clicked the bomb of the row and lost.
C15_Witness ==
    /\ tileData.width = 8 /\ tileData.height = 1
    /\ lastOp.name = "clickTile"
    /\ lastOp.started
    /\ lastOp.path = "openTile:handleLose"
    /\ boardState = "lost"
    /\ get(tileState, Point(0, 0)) = ClickedOpen
    /\ \A p \in BoardPoints \ {Point(0, 0)} : get(tileState, p) = InitialTileState

---------------------------------------------------------------------------
(* C16 *)

\* C16 as claimed: every clickTile and changeTileState call, in every board
\* state and at every point, the points outside the board included, returns
\* normally, and a call at a point outside the board changes nothing.
C16_Original ==
    [][\A call \in Calls :
          Took(call) =>
              LET b == Result(call)
              IN  /\ b.threw = NoError
                  /\ call.point \notin BoardPoints => BoardUntouched(b)]_vars

---------------------------------------------------------------------------
(* C17 *)

\* The call was rejected: it left by one of the early returns.
Rejected(b) ==
    b.path \in {"clickTile:not_active", "changeTileState:not_active", "changeTileState:open",
                "openTile:not_default", "openNeighbors:closed",
                "openNeighbors:not_enough_flags"}

\* C17 as claimed: a clickTile or changeTileState call that fails with an
\* error or is rejected leaves the board state, every tile and the counter
\* as they were before the call and emits no notification.
C17_Original ==
    [][\A call \in Calls :
          Took(call) =>
              LET b == Result(call)
              IN  (b.threw # NoError \/ Rejected(b)) =>
                      BoardUntouched(b) /\ Emits(b) = 0]_vars

---------------------------------------------------------------------------
(* C18 *)

\* C18: for every layout and every sequence of calls, no bomb tile is open
\* while the board is not_started or active, the counter is never negative,
\* and no call at a point of the board throws: neither the assertion of
\* openNeighbors (chord on a bomb tile) nor that of checkWin (negative
\* counter) fires; no call at all has ended with one of the two.
C18_NoInternalFault ==
    /\ boardState \in {"not_started", "active"} =>
           \A p \in BoardPoints : IsBomb(p) => ~IsOpenIn(tileState, p)
    /\ tilesLeftToOpenToWin >= 0
    /\ lastOp.threw \notin {BombOpenError, NegativeError}
    /\ \A call \in Calls :
           LET b == Result(call)
           IN  /\ b.threw \notin {BombOpenError, NegativeError}
               /\ call.point \in BoardPoints => b.threw = NoError
               /\ b.tilesLeftToOpenToWin >= 0

\* A chord was made on a board with bombs, passed both assertions, and the
\* game goes on with a bomb still closed and unflagged.
C18_Witness ==
    /\ boardState = "active"
    /\ lastOp.path = "openNeighbors:checkWin"
    /\ lastOp.opened >= 1
    /\ \E p \in BoardPoints : IsBomb(p) /\ ~IsFlagIn(tileState, p)

---------------------------------------------------------------------------
(* C19 *)

\* The points of a grid, and its cells that hold a bomb.
PointsOf(grid) == {Point(x, y) : x \in 0..(grid.width - 1), y \in 0..(grid.height - 1)}

BombsOf(grid) == {p \in PointsOf(grid) : get(grid, p).type = "bomb"}

\* A constructed board is consistent: bombCount cells are bombs, the counter
\* is the number of the other cells, and every Empty cell carries the number
\* of bombs among the cells around it that lie on the board.
Consistent(object) ==
    /\ Cardinality(BombsOf(object.tileData)) = object.bombCount
    /\ object.tilesLeftToOpenToWin
           = Cardinality(PointsOf(object.tileData)) - object.bombCount
    /\ \A p \in PointsOf(object.tileData) \ BombsOf(object.tileData) :
           get(object.tileData, p)
               = EmptyTile(Cardinality({q \in BombsOf(object.tileData) : Adjacent(p, q)}))

\* The step constructs the board by this call of generate.
TookGenerate(call) ==
    /\ Constructed(GenerateResult(call))
    /\ lastOp' = NoCall("generate", GenerateResult(call).threw)

---------------------------------------------------------------------------
(* C20 *)

\* The arguments are the ones the claim names: a width or a height of zero
\* or less, or an array whose length is not width * height.
BadArguments(width, height, array) ==
    width <= 0 \/ height <= 0 \/ Length(array) # width * height

\* C20: new MinesweeperBoard(width, height, bombsArray) and new Grid(width,
\* height, array) throw exactly when width <= 0, height <= 0 or the length
\* of the array differs from width * height, with the message of the first
\* assert that fails, and then yield no object; new Grid(width, height)
\* without an array throws exactly when width <= 0 or height <= 0.  After
\* a construction that threw, no board is in place.
C20_ConstructionFails ==
    /\ (lastOp.threw # NoError) = (boardState = NoBoard.boardState /\ lastOp.name # "none")
    /\ \A call \in ConstructorCalls :
           LET board == ConstructorResult(call)
               grid == newGrid(call.width, call.height, Some(call.bombsArray))
               plain == newGrid(call.width, call.height, NULL)
               bad == BadArguments(call.width, call.height, call.bombsArray)
           IN  /\ (board.threw # NoError) = bad
               /\ (board.object = NULL) = bad
               /\ board.threw = IF call.width <= 0 THEN WidthError
                                ELSE IF call.height <= 0 THEN HeightError
                                ELSE IF bad THEN LengthError
                                ELSE NoError
               /\ (grid.threw # NoError) = bad
               /\ (grid.object = NULL) = bad
               /\ grid.threw = IF call.width <= 0 THEN WidthError
                               ELSE IF call.height <= 0 THEN HeightError
                               ELSE IF bad THEN GridSizeError
                               ELSE NoError
               /\ (plain.threw # NoError) = (call.width <= 0 \/ call.height <= 0)
               /\ (plain.object = NULL) = (plain.threw # NoError)

\* The constructor was called with a layout of the wrong length: it threw,
\* and no board is in place.
C20_Witness ==
    /\ lastOp = NoCall("constructor", LengthError)
    /\ boardState = NoBoard.boardState
    /\ tileData = NULL

---------------------------------------------------------------------------
(* lib/signal.ts on its own: a Signal<T> and the calls made on it.  The    *)
(* Set of callbacks is kept as the sequence of its members in insertion    *)
(* order, the order in which a Set is iterated.                            *)

\* The callbacks are MaxCallbacks distinct functions.
MaxCallbacks == 3

Callbacks == 1..MaxCallbacks

\* The values emitted.
Values == {"active", "lost"}

\* The fields of the board while an object of lib/ is exercised on its own.
Board == <<tileData, tileState, bombCount, tilesLeftToOpenToWin, boardState, lastOp>>

NoBoardYet == IsBoard(NoBoard) /\ lastOp = NoCall("none", NoError)

\* Set.prototype.has / add / delete on the insertion-ordered members.
Has(members, value) == \E i \in 1..Len(members) : members[i] = value

SetAdd(members, value) == IF Has(members, value) THEN members ELSE Append(members, value)

SetDelete(members, value) == SelectSeq(members, LAMBDA m : m # value)

\* Mutant: the callbacks are kept in a list, so a callback can be in twice.
connectAppend(callbacks, callback) == Append(callbacks, callback)

\* this.callbacks.add(callback)
connect(callbacks, callback) == SetAdd(callbacks, callback)

\* this.callbacks.delete(callback)
disconnect(callbacks, callback) == SetDelete(callbacks, callback)

\* for (const callback of this.callbacks) callback(data): the invocations
\* made, in order.
emit(callbacks, data) ==
    [i \in 1..Len(callbacks) |-> [callback |-> callbacks[i], data |-> data]]

\* this.callbacks.clear()
clear(callbacks) == <<>>

\* new Signal(): no callbacks.  connected is the set of observers the calls
\* made so far leave connected, invoked the invocations of the last emit;
\* repeated and removed record that a connect found its callback connected
\* already, and that a disconnect or a clear removed a connected callback.
InitSignal ==
    /\ NoBoardYet
    /\ lib = [callbacks |-> <<>>, connected |-> {}, invoked |-> <<>>, op |-> "new",
              repeated |-> FALSE, removed |-> FALSE]

Connect ==
    \E callback \in Callbacks :
        /\ lib' = [lib EXCEPT !.callbacks = connect(@, callback),
                              !.connected = @ \cup {callback},
                              !.op = "connect",
                              !.repeated = @ \/ callback \in lib.connected]
        /\ UNCHANGED Board

Disconnect ==
    \E callback \in Callbacks :
        /\ lib' = [lib EXCEPT !.callbacks = disconnect(@, callback),
                              !.connected = @ \ {callback},
                              !.op = "disconnect",
                              !.removed = @ \/ callback \in lib.connected]
        /\ UNCHANGED Board

Clear ==
    /\ lib' = [lib EXCEPT !.callbacks = clear(@),
                          !.connected = {},
                          !.op = "clear",
                          !.removed = @ \/ lib.connected # {}]
    /\ UNCHANGED Board

Emit ==
    \E data \in Values :
        /\ lib' = [lib EXCEPT !.invoked = emit(lib.callbacks, data), !.op = "emit"]
        /\ UNCHANGED Board

NextSignal == Connect \/ Disconnect \/ Clear \/ Emit

SpecSignal == InitSignal /\ [][NextSignal]_vars

---------------------------------------------------------------------------
(* C21 *)

\* How often the invocations call this callback with this value.
Invocations(invoked, callback, data) ==
    Cardinality({i \in 1..Len(invoked) :
                    invoked[i] = [callback |-> callback, data |-> data]})

\* The invocations call every callback of the set once with the value, and
\* call nothing else.
InvokesExactly(invoked, set, data) ==
    /\ Len(invoked) = Cardinality(set)
    /\ \A callback \in Callbacks :
           Invocations(invoked, callback, data) = IF callback \in set THEN 1 ELSE 0

\* C21: after any sequence of connect / disconnect / clear calls, emit(value)
\* invokes every callback that is connected at that moment exactly once with
\* value, and no other; connecting a connected callback again changes
\* nothing; after clear, emit invokes nothing.
C21_SignalObservers ==
    /\ \A data \in Values : InvokesExactly(emit(lib.callbacks, data), lib.connected, data)
    /\ \A callback \in Callbacks :
           connect(connect(lib.callbacks, callback), callback)
               = connect(lib.callbacks, callback)
    /\ \A data \in Values : emit(clear(lib.callbacks), data) = <<>>
    /\ lib.op = "clear" => lib.callbacks = <<>> /\ lib.connected = {}
    /\ lib.op = "emit" =>
           \E data \in Values : InvokesExactly(lib.invoked, lib.connected, data)

\* An emit has invoked two callbacks, after a callback was connected a
\* second time and a connected callback was removed.
C21_Witness ==
    /\ lib.op = "emit"
    /\ Len(lib.invoked) = 2
    /\ lib.repeated
    /\ lib.removed

---------------------------------------------------------------------------
(* The running call in steps: clickTile and changeTileState executed one   *)
(* statement of the recursion at a time, with the call stack of            *)
(* setTileOpen explicit.  lib holds the call in progress: its activation   *)
(* records (stack, innermost first), the neighbors openNeighbors has still *)
(* to open (pending), what the call does when the opening is over (tail),  *)
(* how far the loop of handleLose or checkWin has come (k), and the fields *)
(* of the board when the call was made (before).                           *)

\* An activation of setTileOpen(point, wasClicked); i = 0 before the body
\* has run, and from then on the index of the next neighbor of the loop.
Frame(point, wasClicked) == [point |-> point, wasClicked |-> wasClicked, i |-> 0]

\* The fields of the board together with the control state of the call.
Machine ==
    [b |-> Cur, stack |-> lib.stack, pending |-> lib.pending,
     tail |-> lib.tail, k |-> lib.k, phase |-> lib.phase]

\* The call has returned (or thrown) with the board b.
Done(b) ==
    [b |-> b, stack |-> <<>>, pending |-> <<>>, tail |-> "none", k |-> 1,
     phase |-> "returned"]

\* The call goes on to open tiles.
Running(b, stack, pending, tail) ==
    [b |-> b, stack |-> stack, pending |-> pending, tail |-> tail, k |-> 1,
     phase |-> "running"]

\* The body of setTileOpen up to its loop: the board after it, and whether
\* the loop over the neighbors is entered.
setTileOpenEnter(b, point, wasClicked) ==
    LET ts == get(b.tileState, point)
        td == get(tileData, point)
    IN  IF OpenRejected(ts) # ""
        THEN [b |-> Output(b, Warn(OpenRejected(ts), point, "setTileOpen")), loops |-> FALSE]
        ELSE LET b1 == SetTileState(b, point,
                           [ts EXCEPT !.isOpen = TRUE, !.wasClicked = wasClicked])
                 b2 == Output(b1, TileChanged(point, "setTileOpen"))
             IN  IF td.type # "empty" THEN [b |-> b2, loops |-> FALSE]
                 ELSE LET b3 == [b2 EXCEPT !.tilesLeftToOpenToWin = @ - 1]
                      IN  [b |-> b3, loops |-> ~HasBombNeighbors(td)]

\* Mutant: the loop over the neighbors never moves on.
NextNeighborSame(i) == i

\* The loop of setTileOpen moves on to the next neighbor.
NextNeighbor(i) == i + 1

\* openTile up to its call of setTileOpen.
openTileStart(b, point) ==
    LET ts == get(b.tileState, point)
    IN  IF NotInDefaultState(ts)
        THEN Done(Output(b, Warn("Tried to open tile not in the default state", point, "openTile")))
        ELSE Running(b, <<Frame(point, TRUE)>>, <<>>,
                     IF get(tileData, point).type = "bomb" THEN "handleLose" ELSE "checkWin")

\* openNeighbors up to its first loop.
openNeighborsStart(b, point) ==
    LET ts == get(b.tileState, point)
        td == get(tileData, point)
        neighbors == InBoundsNeighbors(point)
        flagNeighbors == SelectSeq(neighbors, LAMBDA p : IsFlagNeighbor(get(b.tileState, p)))
        neighborsToOpen == SelectSeq(neighbors, LAMBDA p : IsNeighborToOpen(get(b.tileState, p)))
    IN  IF ~ts.isOpen
        THEN Done(Output(b, Warn("Tried to open neighbors of a closed tile", point, "openNeighbors")))
        ELSE IF td.type # "empty" THEN Done(Throw(b, BombOpenError))
        ELSE IF ~EnoughFlags(Len(flagNeighbors), td.bombNeighbors) THEN Done(b)
        ELSE Running(b, <<>>, neighborsToOpen,
                     IF AnyBomb(neighborsToOpen) THEN "handleLose" ELSE "checkWin")

\* clickTile up to the first call of setTileOpen.
clickTileStart(b, point) ==
    LET b1 == StartIfNotStarted(b)
    IN  IF NotActive(b1)
        THEN Done(Output(b1, Warn("Tried to click on tile when the board is not in the active state",
                                  NoPoint, "clickTile")))
        ELSE IF getThrows(b1.tileState, point) THEN Done(Throw(b1, OutOfBoundsError))
        ELSE IF get(b1.tileState, point).isOpen THEN openNeighborsStart(b1, point)
        ELSE openTileStart(b1, point)

\* One round of the loop of handleLose.
RevealAt(b, point) ==
    LET ts == get(b.tileState, point)
    IN  IF ~IsRevealedOnLose(get(tileData, point), ts) THEN b
        ELSE Output(SetTileState(b, point, [ts EXCEPT !.isOpen = TRUE]),
                    TileChanged(point, "handleLose"))

\* One round of the loop of checkWin.
FlagBombAt(b, point) ==
    LET ts == get(b.tileState, point)
    IN  IF get(tileData, point).type # "bomb" THEN b
        ELSE IF ts.state = "flag" THEN b
        ELSE Output(SetTileState(b, point, [ts EXCEPT !.state = "flag"]),
                    TileChanged(point, "checkWin"))

\* One step of handleLose: a round of its loop, or the assignment of lost
\* after the loop.
handleLoseStep(m) ==
    IF m.k > Len(points(tileData)) THEN Done(setBoardState(m.b, "lost"))
    ELSE [m EXCEPT !.b = RevealAt(m.b, points(tileData)[m.k]), !.k = m.k + 1]

\* One step of checkWin: its assert and its early return, then a round of
\* its loop, or the assignment of won after the loop.
checkWinStep(m) ==
    IF ~(m.b.tilesLeftToOpenToWin >= 0) THEN Done(Throw(m.b, NegativeError))
    ELSE IF TilesLeft(m.b) THEN Done(m.b)
    ELSE IF m.k > Len(points(tileData)) THEN Done(setBoardState(m.b, "won"))
    ELSE [m EXCEPT !.b = FlagBombAt(m.b, points(tileData)[m.k]), !.k = m.k + 1]

\* One step of the call in progress: the innermost activation of
\* setTileOpen runs its body or one round of its loop; without an
\* activation the loop of openNeighbors calls setTileOpen for its next
\* neighbor; when nothing is left to open the call goes through handleLose
\* or checkWin.
step(m) ==
    IF m.stack # <<>>
    THEN LET f == Head(m.stack)
             callers == Tail(m.stack)
         IN  IF f.i = 0
             THEN LET e == setTileOpenEnter(m.b, f.point, f.wasClicked)
                  IN  [m EXCEPT !.b = e.b,
                                !.stack = IF e.loops THEN <<[f EXCEPT !.i = 1]>> \o callers
                                          ELSE callers]
             ELSE IF f.i > Len(eightWayNeighbors(f.point))
             THEN [m EXCEPT !.stack = callers]
             ELSE LET neighborPoint == eightWayNeighbors(f.point)[f.i]
                      g == [f EXCEPT !.i = NextNeighbor(f.i)]
                  IN  [m EXCEPT !.stack =
                          IF ~isInBounds(tileData, neighborPoint) THEN <<g>> \o callers
                          ELSE <<Frame(neighborPoint, FALSE), g>> \o callers]
    ELSE IF m.pending # <<>>
    THEN [m EXCEPT !.stack = <<Frame(Head(m.pending), TRUE)>>, !.pending = Tail(m.pending)]
    ELSE IF m.tail = "handleLose" THEN handleLoseStep(m)
    ELSE checkWinStep(m)

\* The control state of a call as lib keeps it.
Control(name, point, m, before) ==
    [name |-> name, point |-> point, phase |-> m.phase, stack |-> m.stack,
     pending |-> m.pending, tail |-> m.tail, k |-> m.k, threw |-> m.b.threw,
     before |-> before]

\* The board fields the call started from, without its output.
Before == [Cur EXCEPT !.log = <<>>]

InitSteps ==
    /\ \E d \in Dimensions :
           \E bombsArray \in [0..(d[1] * d[2] - 1) -> BOOLEAN] :
               LET r == newMinesweeperBoard(d[1], d[2], bombsArray)
               IN  IsBoard(r.object[1])
    /\ lastOp = NoCall("none", NoError)
    /\ lib = Control("none", NoPoint, Done(Cur), Before)

\* The driver calls clickTile(point) when no call is in progress.
CallClickTile ==
    \E point \in InputPoints :
        /\ lib.phase = "returned"
        /\ \E m \in {clickTileStart(Cur, point)} :
               /\ tileState' = m.b.tileState
               /\ tilesLeftToOpenToWin' = m.b.tilesLeftToOpenToWin
               /\ boardState' = m.b.boardState
               /\ lib' = Control("clickTile", point, m, Before)
        /\ UNCHANGED <<tileData, bombCount, lastOp>>

\* The driver calls changeTileState(point), which has no loop and no call
\* of setTileOpen: it returns in the same step.
CallChangeTileState ==
    \E point \in InputPoints :
        /\ lib.phase = "returned"
        /\ \E m \in {Done(changeTileState(Cur, point))} :
               /\ tileState' = m.b.tileState
               /\ tilesLeftToOpenToWin' = m.b.tilesLeftToOpenToWin
               /\ boardState' = m.b.boardState
               /\ lib' = Control("changeTileState", point, m, Before)
        /\ UNCHANGED <<tileData, bombCount, lastOp>>

\* The call in progress takes its next step.
Step ==
    /\ lib.phase = "running"
    /\ \E m \in {step(Machine)} :
           /\ tileState' = m.b.tileState
           /\ tilesLeftToOpenToWin' = m.b.tilesLeftToOpenToWin
           /\ boardState' = m.b.boardState
           /\ lib' = Control(lib.name, lib.point, m, lib.before)
    /\ UNCHANGED <<tileData, bombCount, lastOp>>

NextSteps == CallClickTile \/ CallChangeTileState \/ Step

\* JavaScript runs a call to completion: a call in progress takes its next
\* step.
SpecSteps == InitSteps /\ [][NextSteps]_vars /\ WF_vars(Step)

---------------------------------------------------------------------------
(* C22 *)

ClosedTiles == {p \in BoardPoints : ~IsOpenIn(tileState, p)}

\* What an activation of setTileOpen has still to do, at most: its body, or
\* the rounds of its loop that are left, each with the call it makes.
RECURSIVE FrameWork(_, _)
FrameWork(stack, k) ==
    IF k > Len(stack) THEN 0
    ELSE (IF stack[k].i = 0 THEN 1 ELSE 2 * (9 - stack[k].i) + 1) + FrameWork(stack, k + 1)

\* A bound on the steps the call in progress has still to take: 18 for
\* every closed tile (the body and the loop of the activation that opens
\* it), the work of the activations on the stack, 2 for every neighbor
\* openNeighbors has still to open, and the rounds handleLose or checkWin
\* has still to make with its last step.
Measure ==
    IF lib.phase # "running" THEN 0
    ELSE 18 * Cardinality(ClosedTiles)
             + FrameWork(lib.stack, 1) + 2 * Len(lib.pending) + (Size + 2 - lib.k)

\* The board a returned call leaves is the one the call as a whole gives.
StepsAgreeWithCall ==
    lib.phase = "returned" /\ lib.name # "none" =>
        LET b == IF lib.name = "clickTile" THEN clickTile(lib.before, lib.point)
                 ELSE changeTileState(lib.before, lib.point)
        IN  /\ tileState = b.tileState
            /\ tilesLeftToOpenToWin = b.tilesLeftToOpenToWin
            /\ boardState = b.boardState
            /\ lib.threw = b.threw

\* C22: every call of clickTile and changeTileState, on any board and in any
\* state, returns after finitely many steps, the flood fill and the chord
\* included: every step of a call in progress lowers a bound on the steps
\* that are left, no more activations of setTileOpen are on the stack than
\* the board has tiles plus one, and an activation of setTileOpen either
\* opens a tile that was closed or returns at once.
C22_Terminates ==
    /\ [](Len(lib.stack) <= Size + 1)
    /\ [][Step => Measure' < Measure]_vars
    /\ [][Step /\ lib.stack # <<>> /\ Head(lib.stack).i = 0 =>
             \/ /\ ClosedTiles' = ClosedTiles \ {Head(lib.stack).point}
                /\ Head(lib.stack).point \in ClosedTiles
             \/ /\ tileState' = tileState
                /\ lib'.stack = Tail(lib.stack)]_vars
    /\ [](StepsAgreeWithCall)
    /\ (lib.phase = "running") ~> (lib.phase = "returned")

\* A click on a board without bombs has returned after a flood fill that
\* opened four tiles, the board won.
C22_Witness ==
    /\ lib.phase = "returned"
    /\ lib.name = "clickTile"
    /\ Cardinality({p \in BoardPoints : ~IsOpenIn(lib.before.tileState, p)}) = 4
    /\ ClosedTiles = {}
    /\ boardState = "won"

---------------------------------------------------------------------------
(* lib/grid.ts on its own: a Grid<T> whose type T admits null.  An element *)
(* is NULL or Some(v); Grid_getOrNull and Grid_get are getOrNull and get   *)
(* with the element itself as the returned value, so that a stored null    *)
(* and the null returned for a point outside the grid are the same value,  *)
(* as they are in the source.  (The grids of the board hold objects and    *)
(* booleans only; for those getOrNull, getThrows and get above say the     *)
(* same.)                                                                  *)

\* The elements a grid is filled with: null and two values.
Elements == {NULL, Some("a"), Some("b")}

\* const index = this.pointToArrayIndex(point);
\* if (index === null) return null; return this.array[index];
Grid_getOrNull(grid, point) ==
    LET index == pointToArrayIndex(grid, point)
    IN  IF index = NULL THEN NULL ELSE grid.array[index[1]]

\* const value = this.getOrNull(point);
\* if (value === null) throw new Error(...); return value;
Grid_get(grid, point) ==
    LET value == Grid_getOrNull(grid, point)
    IN  IF value = NULL THEN [threw |-> OutOfBoundsError, value |-> NULL]
        ELSE [threw |-> NoError, value |-> value]

\* The points the calls are made at: the grid and the ring around it.
ProbePoints == {Point(x, y) : x \in (-1)..lib.grid.width, y \in (-1)..lib.grid.height}

\* A call on the grid and what it gave.
GridCall(name, point, threw, value) ==
    [name |-> name, point |-> point, threw |-> threw, value |-> value]

InitGrid ==
    /\ NoBoardYet
    /\ \E d \in Dimensions :
           \E array \in [0..(d[1] * d[2] - 1) -> Elements] :
               lib = [grid |-> newGrid(d[1], d[2], Some(array)).object[1],
                      call |-> GridCall("new", NoPoint, NoError, NULL)]

IsInBounds ==
    \E point \in ProbePoints :
        /\ lib' = [lib EXCEPT !.call =
                      GridCall("isInBounds", point, NoError, isInBounds(lib.grid, point))]
        /\ UNCHANGED Board

GetOrNull ==
    \E point \in ProbePoints :
        /\ lib' = [lib EXCEPT !.call =
                      GridCall("getOrNull", point, NoError, Grid_getOrNull(lib.grid, point))]
        /\ UNCHANGED Board

Get ==
    \E point \in ProbePoints :
        /\ lib' = [lib EXCEPT !.call =
                      GridCall("get", point, Grid_get(lib.grid, point).threw,
                               Grid_get(lib.grid, point).value)]
        /\ UNCHANGED Board

EightWayNeighbors ==
    \E point \in ProbePoints :
        /\ lib' = [lib EXCEPT !.call =
                      GridCall("eightWayNeighbors", point, NoError, eightWayNeighbors(point))]
        /\ UNCHANGED Board

NextGrid == IsInBounds \/ GetOrNull \/ Get \/ EightWayNeighbors

SpecGrid == InitGrid /\ [][NextGrid]_vars

---------------------------------------------------------------------------
(* C23 *)

\* 0 <= p.x < width and 0 <= p.y < height
Inside(grid, p) == 0 <= p.x /\ p.x < grid.width /\ 0 <= p.y /\ p.y < grid.height

---------------------------------------------------------------------------
(* C25 *)

\* The eight offsets in the order of the two loops: dx outer, dy inner.
Offsets ==
    <<Point(-1, -1), Point(-1, 0), Point(-1, 1), Point(0, -1),
      Point(0, 1), Point(1, -1), Point(1, 0), Point(1, 1)>>

\* C25: eightWayNeighbors(point) yields 8 points, point + (dx, dy) for every
\* (dx, dy) of {-1, 0, 1} x {-1, 0, 1} but (0, 0), with dx the outer loop and
\* dy the inner one; it never yields point itself, yields no point twice,
\* and yields the points outside the grid as well (8 points at a corner).
C25_EightWayNeighbors ==
    /\ lib.call.name = "eightWayNeighbors" =>
           /\ Len(lib.call.value) = 8
           /\ lib.call.value = eightWayNeighbors(lib.call.point)
    /\ \A point \in ProbePoints :
           LET n == eightWayNeighbors(point)
           IN  /\ Len(n) = 8
               /\ \A i \in 1..8 :
                      n[i] = Point(point.x + Offsets[i].x, point.y + Offsets[i].y)
               /\ \A i \in 1..8 : n[i] # point
               /\ \A i, j \in 1..8 : i # j => n[i] # n[j]
               /\ {n[i] : i \in 1..8}
                      = {Point(point.x + dx, point.y + dy) : dx, dy \in {-1, 0, 1}} \ {point}

\* eightWayNeighbors was called at the corner (0, 0) of a grid: of the 8
\* points it gave, at least 5 lie outside the grid.
C25_Witness ==
    /\ lib.call.name = "eightWayNeighbors"
    /\ lib.call.point = Point(0, 0)
    /\ Len(lib.call.value) = 8
    /\ Cardinality({i \in 1..8 : ~isInBounds(lib.grid, lib.call.value[i])}) >= 5

---------------------------------------------------------------------------
(* lib/grid.ts on its own: the generator points() returns, and mapIndexed. *)
(* A generator is the position of the two loops of points(), with the      *)
(* points it has yielded so far; every call of points() makes a new one.   *)

\* At most MaxGenerators generators are kept.
MaxGenerators == 2

\* grid.points(): a generator that has not run yet.
NewGenerator == [x |-> 0, y |-> 0, done |-> FALSE, yielded |-> <<>>]

\* generator.next(): the loops run on to the next yield, or to their end.
RECURSIVE next(_, _)
next(grid, generator) ==
    IF generator.done THEN generator
    ELSE IF ~(generator.y < grid.height) THEN [generator EXCEPT !.done = TRUE]
    ELSE IF ~(generator.x < grid.width)
    THEN next(grid, [generator EXCEPT !.x = 0, !.y = generator.y + 1])
    ELSE [generator EXCEPT !.yielded = Append(generator.yielded,
                                              Point(generator.x, generator.y)),
                           !.x = generator.x + 1]

\* The transform functions handed to mapIndexed: the pair of the point and
\* the value (any transform is a function of that pair), and the value
\* alone.
Transforms == {"pair", "value"}

Transform(name, grid) ==
    [point \in {points(grid)[i] : i \in 1..Len(points(grid))} |->
        [value \in Elements \ {NULL} |->
            IF name = "pair" THEN [point |-> point, value |-> value]
            ELSE [point |-> NoPoint, value |-> value]]]

\* Array.from(this.points(), ...): the first point, in the order of
\* points(), at which this.get(point) throws; 0 when it throws at none.
FirstThrow(grid) ==
    LET pts == points(grid)
        bad == {i \in 1..Len(pts) : Grid_get(grid, pts[i]).threw # NoError}
    IN  IF bad = {} THEN 0 ELSE CHOOSE i \in bad : \A j \in bad : i <= j

\* Grid.mapIndexed on a grid whose elements may be null: the error thrown
\* and the new grid, if any.
Grid_mapIndexed(grid, transform) ==
    LET pts == points(grid)
    IN  IF FirstThrow(grid) # 0
        THEN [threw |-> Grid_get(grid, pts[FirstThrow(grid)]).threw, object |-> NULL]
        ELSE newGrid(grid.width, grid.height,
                     Some([i \in 0..(Len(pts) - 1) |->
                              transform[pts[i + 1]][Grid_get(grid, pts[i + 1]).value]]))

InitPoints ==
    /\ NoBoardYet
    /\ \E d \in Dimensions :
           \E array \in [0..(d[1] * d[2] - 1) -> Elements] :
               lib = [grid |-> newGrid(d[1], d[2], Some(array)).object[1],
                      generators |-> <<>>,
                      mapped |-> NULL]

\* const generator = grid.points()
Points ==
    /\ Len(lib.generators) < MaxGenerators
    /\ lib' = [lib EXCEPT !.generators = Append(@, NewGenerator)]
    /\ UNCHANGED Board

\* generator.next() on one of the generators
NextPoint ==
    \E i \in 1..Len(lib.generators) :
        /\ lib' = [lib EXCEPT !.generators[i] = next(lib.grid, @)]
        /\ UNCHANGED Board

\* grid.mapIndexed(transform)
MapIndexed ==
    \E name \in Transforms :
        /\ lib' = [lib EXCEPT !.mapped =
                      Some([transform |-> name,
                            threw |-> Grid_mapIndexed(lib.grid, Transform(name, lib.grid)).threw,
                            object |-> Grid_mapIndexed(lib.grid, Transform(name, lib.grid)).object])]
        /\ UNCHANGED Board

NextPoints == Points \/ NextPoint \/ MapIndexed

SpecPoints == InitPoints /\ [][NextPoints]_vars

---------------------------------------------------------------------------
(* C24 *)

\* The points of the grid in row-major order: the k-th is (k mod width,
\* k div width), counting from 0.
RowMajor(grid) ==
    [k \in 1..(grid.width * grid.height) |->
        Point((k - 1) % grid.width, (k - 1) \div grid.width)]

IsPrefix(s, t) == Len(s) <= Len(t) /\ \A k \in 1..Len(s) : s[k] = t[k]

\* What the generators have yielded is the beginning of the row-major
\* order, each for itself, and all of it when the generator is done.
GeneratorsRowMajor ==
    \A i \in 1..Len(lib.generators) :
        LET generator == lib.generators[i]
        IN  /\ IsPrefix(generator.yielded, RowMajor(lib.grid))
            /\ generator.done => generator.yielded = RowMajor(lib.grid)
            /\ Len(generator.yielded) = Len(RowMajor(lib.grid)) =>
                   next(lib.grid, generator).done

\* The points of the whole enumeration: every point of the grid once.
PointsComplete ==
    LET pts == points(lib.grid)
    IN  /\ pts = RowMajor(lib.grid)
        /\ Len(pts) = lib.grid.width * lib.grid.height
        /\ \A i, j \in 1..Len(pts) : i # j => pts[i] # pts[j]
        /\ {pts[i] : i \in 1..Len(pts)} = {p \in ProbePoints : Inside(lib.grid, p)}

\* The grid mapIndexed returned has the width and the height of the source
\* and holds transform(p, stored element) at every point p.
MappedAsClaimed ==
    lib.mapped # NULL =>
        LET m == lib.mapped[1]
            g == lib.grid
        IN  /\ m.threw = NoError
            /\ m.object # NULL
            /\ m.object[1].width = g.width
            /\ m.object[1].height = g.height
            /\ \A p \in {q \in ProbePoints : Inside(g, q)} :
                   Grid_getOrNull(m.object[1], p)
                       = Transform(m.transform, g)[p][g.array[p.x + g.width * p.y]]

---------------------------------------------------------------------------
(* minesweeper/board-settings.ts on its own.  urlParams.get(name) is null  *)
(* or a string; the three numeric parameters are strings of characters,    *)
(* which parseInt reads, the difficulty is compared as a whole.            *)

BEGINNER_SETTINGS == [width |-> 9, height |-> 9, bombs |-> 10]

INTERMEDIATE_SETTINGS == [width |-> 16, height |-> 16, bombs |-> 40]

EXPERT_SETTINGS == [width |-> 30, height |-> 16, bombs |-> 99]

\* parseInt and isNaN of the language: NaN is the absent number.
NaN == NULL

isNaN(number) == number = NaN

DigitChars == <<"0", "1", "2", "3", "4", "5", "6", "7", "8", "9",
                "a", "b", "c", "d", "e", "f">>

UpperDigitChars == <<"0", "1", "2", "3", "4", "5", "6", "7", "8", "9",
                     "A", "B", "C", "D", "E", "F">>

IsDigit(char, radix) ==
    \E i \in 1..radix : DigitChars[i] = char \/ UpperDigitChars[i] = char

DigitValue(char) ==
    (CHOOSE i \in 1..16 : DigitChars[i] = char \/ UpperDigitChars[i] = char) - 1

RECURSIVE TrimStart(_)
TrimStart(string) ==
    IF string # <<>> /\ Head(string) \in {" ", "\t", "\n"}
    THEN TrimStart(Tail(string))
    ELSE string

\* The longest beginning of the string made of digits of the radix.
RECURSIVE DigitsPrefix(_, _)
DigitsPrefix(string, radix) ==
    IF string # <<>> /\ IsDigit(Head(string), radix)
    THEN <<Head(string)>> \o DigitsPrefix(Tail(string), radix)
    ELSE <<>>

RECURSIVE MathInt(_, _)
MathInt(digits, radix) ==
    IF digits = <<>> THEN 0
    ELSE radix * MathInt(SubSeq(digits, 1, Len(digits) - 1), radix)
             + DigitValue(digits[Len(digits)])

\* parseInt(string) with no radix: white space, a sign, 0x or 0X for
\* radix 16, then digits up to the first character that is none.
parseInt(string) ==
    LET s == TrimStart(string)
        sign == IF s # <<>> /\ Head(s) = "-" THEN -1 ELSE 1
        t == IF s # <<>> /\ Head(s) \in {"+", "-"} THEN Tail(s) ELSE s
        hex == Len(t) >= 2 /\ t[1] = "0" /\ t[2] \in {"x", "X"}
        radix == IF hex THEN 16 ELSE 10
        z == DigitsPrefix(IF hex THEN Tail(Tail(t)) ELSE t, radix)
    IN  IF z = <<>> THEN NaN ELSE Some(sign * MathInt(z, radix))

\* The difficulty and the messages written to the console.
getUrlParamsDifficulty(urlParams) ==
    LET param == urlParams.difficulty
    IN  IF param = NULL THEN [value |-> "beginner", console |-> <<>>]
        ELSE IF param[1] \in {"beginner", "intermediate", "expert", "custom"}
        THEN [value |-> param[1], console |-> <<>>]
        ELSE [value |-> "beginner", console |-> <<"warn">>]

\* Mutant: the number of bombs is not compared with the number of tiles.
getUrlParamsCustomBoardSettingsNoTiles(urlParams) ==
    LET widthParam == urlParams.width
        heightParam == urlParams.height
        bombsParam == urlParams.bombs
    IN  IF widthParam = NULL \/ heightParam = NULL \/ bombsParam = NULL
        THEN [value |-> NULL, console |-> <<"error">>]
        ELSE LET width == parseInt(widthParam[1])
                 height == parseInt(heightParam[1])
                 bombs == parseInt(bombsParam[1])
             IN  IF isNaN(width) \/ isNaN(height) \/ isNaN(bombs)
                 THEN [value |-> NULL, console |-> <<"error">>]
                 ELSE IF bombs[1] < 1
                 THEN [value |-> NULL, console |-> <<"error">>]
                 ELSE IF height[1] < 1 \/ width[1] < 8
                 THEN [value |-> NULL, console |-> <<"error">>]
                 ELSE [value |-> Some([width |-> width[1], height |-> height[1],
                                       bombs |-> bombs[1]]),
                       console |-> <<>>]

getUrlParamsCustomBoardSettings(urlParams) ==
    LET widthParam == urlParams.width
        heightParam == urlParams.height
        bombsParam == urlParams.bombs
    IN  IF widthParam = NULL \/ heightParam = NULL \/ bombsParam = NULL
        THEN [value |-> NULL, console |-> <<"error">>]
        ELSE LET width == parseInt(widthParam[1])
                 height == parseInt(heightParam[1])
                 bombs == parseInt(bombsParam[1])
             IN  IF isNaN(width) \/ isNaN(height) \/ isNaN(bombs)
                 THEN [value |-> NULL, console |-> <<"error">>]
                 ELSE IF bombs[1] < 1
                 THEN [value |-> NULL, console |-> <<"error">>]
                 ELSE IF bombs[1] >= width[1] * height[1]
                 THEN [value |-> NULL, console |-> <<"error">>]
                 ELSE IF height[1] < 1 \/ width[1] < 8
                 THEN [value |-> NULL, console |-> <<"error">>]
                 ELSE [value |-> Some([width |-> width[1], height |-> height[1],
                                       bombs |-> bombs[1]]),
                       console |-> <<>>]

getUrlParamsBoardSettings(urlParams) ==
    LET difficulty == getUrlParamsDifficulty(urlParams)
        boardSettings == getUrlParamsCustomBoardSettings(urlParams)
    IN  IF difficulty.value = "beginner"
        THEN [value |-> BEGINNER_SETTINGS, console |-> difficulty.console]
        ELSE IF difficulty.value = "intermediate"
        THEN [value |-> INTERMEDIATE_SETTINGS, console |-> difficulty.console]
        ELSE IF difficulty.value = "expert"
        THEN [value |-> EXPERT_SETTINGS, console |-> difficulty.console]
        ELSE IF boardSettings.value = NULL
        THEN [value |-> BEGINNER_SETTINGS,
              console |-> boardSettings.console \o <<"warn">>]
        ELSE [value |-> boardSettings.value[1], console |-> <<>>]

\* The values of the difficulty parameter: absent, the four names, and
\* strings that are none of them.
DifficultyParams ==
    {NULL, Some("beginner"), Some("intermediate"), Some("expert"),
     Some("custom"), Some("hard"), Some("Custom"), Some("")}

\* The values of a numeric parameter: absent, or a string.
NumberParams ==
    {NULL,
     Some(<<>>),
     Some(<<"a">>),
     Some(<<"0">>),
     Some(<<"1">>),
     Some(<<"7">>),
     Some(<<"8">>),
     Some(<<"9">>),
     Some(<<"7", "2">>),
     Some(<<"-", "1">>),
     Some(<<"-", "8">>),
     Some(<<"+", "8">>),
     Some(<<" ", "9">>),
     Some(<<"8", "p", "x">>),
     Some(<<"8", ".", "9">>),
     Some(<<"1", "e", "3">>),
     Some(<<"0", "x", "1", "0">>),
     Some(<<"0", "x">>)}

InitSettings ==
    /\ NoBoardYet
    /\ \E difficulty \in DifficultyParams :
           \E width \in NumberParams, height \in NumberParams, bombs \in NumberParams :
               lib = [urlParams |-> [difficulty |-> difficulty, width |-> width,
                                     height |-> height, bombs |-> bombs],
                      boardSettings |-> NULL,
                      console |-> <<>>]

\* const boardSettings = getUrlParamsBoardSettings(), once when the page loads
GetUrlParamsBoardSettings ==
    /\ lib.boardSettings = NULL
    /\ lib' = [lib EXCEPT
                  !.boardSettings = Some(getUrlParamsBoardSettings(lib.urlParams).value),
                  !.console = getUrlParamsBoardSettings(lib.urlParams).console]
    /\ UNCHANGED Board

NextSettings == GetUrlParamsBoardSettings

SpecSettings == InitSettings /\ [][NextSettings]_vars

---------------------------------------------------------------------------
(* C26 *)

\* The number each of the strings above stands for in the language, NaN
\* where it stands for none.
NumberOf(param) ==
    CASE param = Some(<<>>) -> NaN
      [] param = Some(<<"a">>) -> NaN
      [] param = Some(<<"0">>) -> Some(0)
      [] param = Some(<<"1">>) -> Some(1)
      [] param = Some(<<"7">>) -> Some(7)
      [] param = Some(<<"8">>) -> Some(8)
      [] param = Some(<<"9">>) -> Some(9)
      [] param = Some(<<"7", "2">>) -> Some(72)
      [] param = Some(<<"-", "1">>) -> Some(-1)
      [] param = Some(<<"-", "8">>) -> Some(-8)
      [] param = Some(<<"+", "8">>) -> Some(8)
      [] param = Some(<<" ", "9">>) -> Some(9)
      [] param = Some(<<"8", "p", "x">>) -> Some(8)
      [] param = Some(<<"8", ".", "9">>) -> Some(8)
      [] param = Some(<<"1", "e", "3">>) -> Some(1)
      [] param = Some(<<"0", "x", "1", "0">>) -> Some(16)
      [] param = Some(<<"0", "x">>) -> NaN

ValidSettings(s) ==
    /\ s.width > 0
    /\ s.height > 0
    /\ 0 < s.bombs
    /\ s.bombs < s.width * s.height

\* The custom values are missing, not numbers, or do not make valid
\* settings.
CustomUnusable(urlParams) ==
    \/ urlParams.width = NULL \/ urlParams.height = NULL \/ urlParams.bombs = NULL
    \/ NumberOf(urlParams.width) = NaN
    \/ NumberOf(urlParams.height) = NaN
    \/ NumberOf(urlParams.bombs) = NaN
    \/ ~ValidSettings([width |-> NumberOf(urlParams.width)[1],
                       height |-> NumberOf(urlParams.height)[1],
                       bombs |-> NumberOf(urlParams.bombs)[1]])

\* C26: whatever the four URL parameters are, getUrlParamsBoardSettings
\* returns settings with width > 0, height > 0 and 0 < bombs < width *
\* height; it returns the beginner preset (9 x 9, 10 bombs) when the
\* difficulty is missing or is none of the four names, and when the
\* difficulty is custom and the custom values are missing, not numbers or
\* out of range; the named presets and usable custom values of width 8 or
\* more are returned as they are.
C26_ValidSettings ==
    /\ \A param \in NumberParams \ {NULL} : parseInt(param[1]) = NumberOf(param)
    /\ lib.boardSettings # NULL =>
           LET s == lib.boardSettings[1]
               p == lib.urlParams
           IN  /\ ValidSettings(s)
               /\ p.difficulty \in {NULL, Some("hard"), Some("Custom"), Some(""),
                                    Some("beginner")}
                      => s = [width |-> 9, height |-> 9, bombs |-> 10]
               /\ p.difficulty = Some("custom") /\ CustomUnusable(p)
                      => s = [width |-> 9, height |-> 9, bombs |-> 10]
               /\ p.difficulty = Some("intermediate")
                      => s = [width |-> 16, height |-> 16, bombs |-> 40]
               /\ p.difficulty = Some("expert")
                      => s = [width |-> 30, height |-> 16, bombs |-> 99]
               /\ p.difficulty = Some("custom") /\ ~CustomUnusable(p)
                      /\ NumberOf(p.width)[1] >= 8
                      => s = [width |-> NumberOf(p.width)[1],
                              height |-> NumberOf(p.height)[1],
                              bombs |-> NumberOf(p.bombs)[1]]

\* Custom settings with as many bombs as tiles (8 x 1, 8 bombs) were asked
\* for and the beginner preset was returned.
C26_Witness ==
    /\ lib.urlParams = [difficulty |-> Some("custom"), width |-> Some(<<"8", "p", "x">>),
                        height |-> Some(<<"1">>), bombs |-> Some(<<"+", "8">>)]
    /\ lib.boardSettings = Some(BEGINNER_SETTINGS)
    /\ lib.console = <<"error", "warn">>

---------------------------------------------------------------------------
(* C27 *)

\* The tiles of `among` that can be reached from the tiles of `set` by
\* steps between adjacent tiles, each step ending in `among`.
RECURSIVE Connected(_, _)
Connected(set, among) ==
    LET more == set \cup {p \in among : \E q \in set : Adjacent(p, q)}
    IN  IF more = set THEN set ELSE Connected(more, among)

\* A set of tiles together with the tiles bordering it.
WithBorder(set) == set \cup {p \in BoardPoints : \E q \in set : Adjacent(p, q)}

\* The connected region of zero-count tiles that contains p, by the tile
\* data alone.
ZeroRegion(p) == Connected({p}, {q \in BoardPoints : IsZero(q)})

ClosedUnflagged(p) == ~IsOpenIn(tileState, p) /\ ~IsFlagIn(tileState, p)

\* The zero-count tiles that can be reached from p through zero-count tiles
\* that are closed and unflagged.
LiveZeroRegion(p) ==
    Connected({p}, {q \in BoardPoints : IsZero(q) /\ ClosedUnflagged(q)})

\* A click, in a game that is not over, on a closed unflagged Empty tile
\* without bomb neighbors.
FloodClicks ==
    {call \in Calls :
        /\ call.name = "clickTile"
        /\ call.point \in BoardPoints
        /\ boardState \in {"not_started", "active"}
        /\ IsZero(call.point)
        /\ ClosedUnflagged(call.point)}

\* C27 as claimed: such a click leaves open every tile of the connected
\* region of zero-count tiles containing the clicked tile and every tile
\* bordering that region, whatever flags are on the board; it opens no bomb,
\* and of the tiles it opens the clicked one alone has wasClicked = true.
C27_Original ==
    [][\A call \in FloodClicks : Took(call) =>
           LET b == Result(call)
           IN  /\ \A p \in WithBorder(ZeroRegion(call.point)) : IsOpenIn(b.tileState, p)
               /\ \A p \in OpenedBy(b) : ~IsBomb(p)
               /\ \A p \in OpenedBy(b) :
                      get(b.tileState, p).wasClicked = (p = call.point)]_vars

\* C27 (amended): such a click opens exactly the closed unflagged tiles among
\* the zero-count tiles reachable from the clicked tile through closed
\* unflagged zero-count tiles and the tiles bordering those.  A flagged tile
\* stays closed and flagged, and a flagged or already open zero-count tile
\* does not pass the flood fill on, so tiles of the region behind it stay
\* closed.  On a board where nothing has been flagged or opened the opened
\* set is the whole region with its border.  No bomb is opened, and of the
\* opened tiles the clicked one alone has wasClicked = true.
C27_FloodFill ==
    \A call \in FloodClicks :
        LET b == Result(call)
            live == LiveZeroRegion(call.point)
        IN  /\ OpenedBy(b) = {p \in WithBorder(live) : ClosedUnflagged(p)}
            /\ OpenedBy(b) \subseteq WithBorder(ZeroRegion(call.point))
            /\ Untouched => OpenedBy(b) = WithBorder(ZeroRegion(call.point))
            /\ \A p \in BoardPoints :
                   IsFlagIn(tileState, p) =>
                       get(b.tileState, p) = get(tileState, p)
            /\ \A p \in OpenedBy(b) : ~IsBomb(p)
            /\ \A p \in OpenedBy(b) :
                   get(b.tileState, p).wasClicked = (p = call.point)
            /\ \A p \in BoardPoints \ OpenedBy(b) :
                   get(b.tileState, p).wasClicked = get(tileState, p).wasClicked
            /\ b.threw = NoError

\* A click has opened three tiles of a row of four through the flood fill
\* while the fourth tile, which has no bomb neighbor either, stayed closed
\* and flagged.
C27_Witness ==
    /\ tileData.width = 4
    /\ lastOp.name = "clickTile"
    /\ lastOp.opened = 3
    /\ \A p \in BoardPoints : IsZero(p)
    /\ \E p \in BoardPoints : IsFlagIn(tileState, p) /\ ~IsOpenIn(tileState, p)
    /\ boardState = "active"

---------------------------------------------------------------------------
(* C28 *)

\* The tiles whose state, isOpen or wasClicked the call changed.
ChangedBy(b) == {p \in BoardPoints : get(b.tileState, p) # get(tileState, p)}

\* C28: an observer that keeps a copy of every tile and refreshes the copy
\* of p from getTileState(p) only when it is notified of a change of p, and
\* that agrees with the board when a call of clickTile or changeTileState
\* starts, agrees with the board when the call is over: every tile the call
\* changed was notified during the call, and the last notification of a
\* tile came after its last change.
C28_ObserverAgrees ==
    \A call \in Calls :
        LET b == Result(call)
        IN  /\ b.seen = b.tileState
            /\ \A p \in ChangedBy(b) : Times(AllTileEvents(b), p) >= 1
            /\ \A p \in BoardPoints \ ChangedBy(b) :
                   get(b.seen, p) = get(tileState, p)

\* A chord has opened a bomb and the loss has revealed another one: tiles
\* were changed by setTileOpen and by handleLose in the same call.
C28_Witness ==
    /\ lastOp.name = "clickTile"
    /\ lastOp.path = "openNeighbors:handleLose"
    /\ lastOp.opened >= 2
    /\ boardState = "lost"

---------------------------------------------------------------------------
(* shuffleArray of utils on its own, one round of its loop at a time.      *)
(* lib holds the array being shuffled in place, the loop variable i, the   *)
(* values of j drawn so far, and the array as it was handed in.            *)

\* The longest array handed to shuffleArray.
MaxShuffle == 4

\* The arrays handed in: arrays of distinct elements (0, 1, ...), and the
\* arrays of bombs and empty tiles generate makes.
DistinctInputs == {[k \in 0..(n - 1) |-> k] : n \in 0..MaxShuffle}

BombInputs == {FilledArray(n, 1, bombs) : n \in 1..MaxShuffle, bombs \in 0..MaxShuffle}

\* shuffleArray(array) is called.
ShuffleCalled(array) ==
    lib = [original |-> array, array |-> array, i |-> Length(array) - 1,
           draws |-> <<>>, returned |-> FALSE]

\* Math.floor(Math.random() * (i + 1))
RandomIndexes(i) == 0..i

InitShuffle ==
    /\ NoBoardYet
    /\ \/ \E array \in DistinctInputs : ShuffleCalled(array)
       \/ \E array \in BombInputs : ShuffleCalled(array)

\* One round of the loop: draw j and swap array[i] with array[j].
ShuffleSwap ==
    /\ ~lib.returned
    /\ lib.i > 0
    /\ \E j \in RandomIndexes(lib.i) :
           lib' = [lib EXCEPT !.array = Swap(lib.array, lib.i, j),
                              !.i = lib.i - 1,
                              !.draws = Append(lib.draws, j)]
    /\ UNCHANGED Board

\* The loop is over: return array.
ShuffleReturn ==
    /\ ~lib.returned
    /\ ~(lib.i > 0)
    /\ lib' = [lib EXCEPT !.returned = TRUE]
    /\ UNCHANGED Board

NextShuffle == ShuffleSwap \/ ShuffleReturn

SpecShuffle == InitShuffle /\ [][NextShuffle]_vars

---------------------------------------------------------------------------
(* C29 *)

RECURSIVE Factorial(_)
Factorial(n) == IF n <= 1 THEN 1 ELSE n * Factorial(n - 1)

\* How often the value v occurs in the array.
Occurrences(array, v) == Cardinality({k \in DOMAIN array : array[k] = v})

\* The arrays with the elements of the given one, each as often.
Rearrangements(array) ==
    {a \in [DOMAIN array -> {array[k] : k \in DOMAIN array}] :
        \A k \in DOMAIN array : Occurrences(a, array[k]) = Occurrences(array, array[k])}

Distinct(array) == \A k, l \in DOMAIN array : k # l => array[k] # array[l]

\* The draws of a run as the choice sequence: the j drawn for every i.
ChoiceOf(draws, n) == [i \in 1..(n - 1) |-> draws[n - i]]

\* C29: shuffleArray walks i from n - 1 down to 1 and swaps position i with
\* a position j of 0..i.  The array is a permutation of the one handed in
\* after every round and at the return (the number of bombs is kept).  On n
\* distinct elements different choice sequences give different results, and
\* the results are all n! permutations, so uniform choices make every
\* permutation equally likely.
C29_FisherYates ==
    LET n == Length(lib.original)
    IN  /\ lib.array \in Rearrangements(lib.original)
        /\ Len(lib.draws) = Max(n - 1, 0) - Max(lib.i, 0)
        /\ \A k \in 1..Len(lib.draws) : lib.draws[k] \in 0..(n - k)
        /\ lib.returned =>
               /\ lib.i = Min(n - 1, 0)
               /\ ChoiceOf(lib.draws, n) \in RandomDraws(n)
               /\ lib.array = shuffleArray(lib.original, ChoiceOf(lib.draws, n))
        /\ lib.draws = <<>> =>
               /\ Cardinality(RandomDraws(n)) = Factorial(n)
               /\ \A r \in RandomDraws(n) :
                      shuffleArray(lib.original, r) \in Rearrangements(lib.original)
               /\ Distinct(lib.original) =>
                      /\ \A r1, r2 \in RandomDraws(n) :
                             shuffleArray(lib.original, r1) = shuffleArray(lib.original, r2)
                                 => r1 = r2
                      /\ {shuffleArray(lib.original, r) : r \in RandomDraws(n)}
                             = Rearrangements(lib.original)
                      /\ Cardinality(Rearrangements(lib.original)) = Factorial(n)

\* The shuffle of four distinct elements has returned them in reverse order.
C29_Witness ==
    /\ lib.returned
    /\ lib.original = [k \in 0..3 |-> k]
    /\ lib.array = [k \in 0..3 |-> 3 - k]
    /\ Len(lib.draws) = 3

---------------------------------------------------------------------------
(* C30 *)

\* C30: whatever calls are made, the tile data (Bomb, or Empty with its
\* bombNeighbors) stay what the constructor made them, a tile that is open
\* stays open, and a call of changeTileState leaves the flag state of every
\* open tile as it is, the tile it is called on included.
C30_TileMonotone ==
    /\ [][tileData' = tileData]_vars
    /\ [][\A p \in BoardPoints :
              IsOpenIn(tileState, p) => get(tileState', p).isOpen]_vars
    /\ [][lastOp'.name = "changeTileState" =>
              \A p \in BoardPoints :
                  IsOpenIn(tileState, p) =>
                      get(tileState', p).state = get(tileState, p).state]_vars
    /\ [](\A p \in BoardPoints :
              LET b == Result([name |-> "changeTileState", point |-> p])
              IN  IsOpenIn(tileState, p) =>
                      /\ b.tileState = tileState
                      /\ AllTileEvents(b) = <<>>)
    /\ [](tileData = TileDataOf(Grid(tileData.width, tileData.height,
                         [i \in DOMAIN tileData.array |-> tileData.array[i].type = "bomb"])))

\* In a game that goes on, with a flag on a closed tile, changeTileState
\* has just been called on an open tile and has returned at its test of
\* isOpen.
C30_Witness ==
    /\ lastOp.name = "changeTileState"
    /\ lastOp.path = "changeTileState:open"
    /\ boardState = "active"
    /\ \E p, q \in BoardPoints :
           /\ IsOpenIn(tileState, p) /\ ~IsFlagIn(tileState, p)
           /\ ~IsOpenIn(tileState, q) /\ IsFlagIn(tileState, q)

---------------------------------------------------------------------------
(* C32 *)

\* What boardStateChangedSignal has emitted since the board was made, when
\* the board is in the given state.
EmittedSoFar(state) ==
    CASE state = "not_started" -> <<>>
      [] state = "active" -> <<"active">>
      [] state = "won" -> <<"active", "won">>
      [] state = "lost" -> <<"active", "lost">>

\* C32: the values emitted on boardStateChangedSignal since the board was
\* made are <<>>, <active>, <active, won> or <active, lost>, and they end
\* with the value boardState holds: every call adds to them exactly what
\* leads from the state before it to the state after it.  So not_started is
\* never emitted, no value is emitted twice, active comes before won or
\* lost even when the first click decides the game, and an emitted value is
\* the value the field holds at the emission.
C32_BoardStateEmissions ==
    /\ boardState \in {"not_started", "active", "won", "lost"}
    /\ \A call \in Calls :
           LET b == Result(call)
           IN  /\ EmittedSoFar(boardState) \o BoardEvents(b) = EmittedSoFar(b.boardState)
               /\ \A i \in 1..Len(BoardEvents(b)) : BoardEvents(b)[i] # "not_started"

\* The first call on the board was a click on a bomb: active and lost were
\* emitted in the same call.
C32_Witness ==
    /\ lastOp.name = "clickTile"
    /\ lastOp.started
    /\ lastOp.path = "openTile:handleLose"
    /\ boardState = "lost"

---------------------------------------------------------------------------
(* C33 *)

\* C33: when the board is won and has an Empty tile, every Empty tile is
\* open and not flagged, every Bomb tile is closed and flagged, and no
\* bomb has wasClicked = true.
C33_WonShape ==
    boardState = "won" /\ (\E p \in BoardPoints : IsEmpty(p)) =>
        /\ \A p \in BoardPoints :
               IsEmpty(p) => IsOpenIn(tileState, p) /\ ~IsFlagIn(tileState, p)
        /\ \A p \in BoardPoints :
               IsBomb(p) => /\ ~IsOpenIn(tileState, p)
                            /\ IsFlagIn(tileState, p)
                            /\ ~get(tileState, p).wasClicked
        /\ tilesLeftToOpenToWin = 0

\* A board with two bombs and two Empty tiles is won.
C33_Witness ==
    /\ boardState = "won"
    /\ bombCount = 2
    /\ Cardinality({p \in BoardPoints : IsEmpty(p)}) = 2
    /\ lastOp.name = "clickTile"

---------------------------------------------------------------------------
(* C34 *)

OpenAndFlagged(p) == IsOpenIn(tileState, p) /\ IsFlagIn(tileState, p)

\* C34: a tile that is open and flagged is an Empty tile of a lost board;
\* before the first call, in a running game and on a won board no tile is
\* open and flagged, and a flagged bomb is open in no state.
C34_OpenAndFlagged ==
    \A p \in BoardPoints :
        /\ OpenAndFlagged(p) => boardState = "lost" /\ IsEmpty(p)
        /\ IsBomb(p) /\ IsFlagIn(tileState, p) => ~IsOpenIn(tileState, p)

\* On a lost board an Empty tile is open and flagged while a flagged bomb
\* is still closed.
C34_Witness ==
    /\ boardState = "lost"
    /\ \E p, q \in BoardPoints :
           /\ IsEmpty(p) /\ OpenAndFlagged(p)
           /\ IsBomb(q) /\ IsFlagIn(tileState, q) /\ ~IsOpenIn(tileState, q)

---------------------------------------------------------------------------
(* pixi/minesweeper.ts: the window, with its board, its face button and    *)
(* its stopwatch (lib/stopwatch.ts).  The board variables hold the board   *)
(* of the window (boardPixi.board); lib holds the rest: the settings, the  *)
(* callbacks connected to the two signals of the board, the callbacks of   *)
(* the board set up before it (discarded, NULL before the first new game), *)
(* the state the button shows, the stopwatch with the number display fed   *)
(* by secondsUpdate, and what the tiles of boardPixi show.                 *)

\* The largest board of the window.
MaxUiCells == 3

\* The milliseconds between two calls of the ticker, and the time after
\* which the ticker is not followed further.
TickMS == 500

MaxElapsedMS == 1000

\* new MinesweeperPixi(width, height, bombCount)
UiSettings ==
    {s \in [width : 1..MaxUiCells, height : 1..MaxUiCells, bombs : 1..MaxUiCells] :
        s.width * s.height <= MaxUiCells /\ s.bombs < s.width * s.height}

\* private set seconds(newSeconds); secondsUpdate feeds rightNumberDisplay.
setSeconds(stopwatch, newSeconds) ==
    IF newSeconds = stopwatch.seconds THEN stopwatch
    ELSE [stopwatch EXCEPT !.seconds = newSeconds, !.display = newSeconds]

Stopwatch_start(stopwatch) == [stopwatch EXCEPT !.started = TRUE]

Stopwatch_pause(stopwatch) == [stopwatch EXCEPT !.started = FALSE]

\* Mutant: reset sets the time to 0 and lets the ticker run.
Stopwatch_resetRunning(stopwatch) ==
    setSeconds([stopwatch EXCEPT !.elapsedMS = 0], 0)

Stopwatch_reset(stopwatch) ==
    setSeconds([stopwatch EXCEPT !.started = FALSE, !.elapsedMS = 0], 0)

\* private update(), with Math.floor(elapsedMS / 1000) of the setter
Stopwatch_update(stopwatch) ==
    setSeconds([stopwatch EXCEPT !.elapsedMS = stopwatch.elapsedMS + TickMS],
               (stopwatch.elapsedMS + TickMS) \div 1000)

\* new Stopwatch(): the ticker is not started.
Stopwatch == [started |-> FALSE, elapsedMS |-> 0, seconds |-> 0, display |-> 0]

onBoardStateChanged(ui, newState) ==
    [ui EXCEPT !.button = newState,
               !.stopwatch = IF newState = "active" THEN Stopwatch_start(ui.stopwatch)
                             ELSE Stopwatch_pause(ui.stopwatch)]

\* The callbacks of an emit on boardStateChangedSignal run one after the other.
RECURSIVE InvokeAll(_, _, _)
InvokeAll(ui, invocations, i) ==
    IF i > Len(invocations) THEN ui
    ELSE InvokeAll(IF invocations[i].callback = "onBoardStateChanged"
                   THEN onBoardStateChanged(ui, invocations[i].data)
                   ELSE ui,
                   invocations, i + 1)

\* What the emissions of a call of the board do to the window, in order.
RECURSIVE Deliver(_, _, _, _)
Deliver(ui, signals, log, i) ==
    IF i > Len(log) THEN ui
    ELSE Deliver(IF log[i].sig = "boardStateChanged"
                 THEN InvokeAll(ui, emit(signals.boardStateChanged, log[i].value), 1)
                 ELSE ui,
                 signals, log, i + 1)

\* The tiles after a call: boardPixi's callback has refreshed them when it
\* is connected.
TilesAfter(ui, b) ==
    IF Has(ui.signals[1].tileChanged, "onTileChanged") THEN b.seen ELSE ui.tiles

\* Mutant: clearSignals forgets boardStateChangedSignal.
clearSignalsTilesOnly(signals) ==
    [tileChanged |-> clear(signals.tileChanged),
     boardStateChanged |-> signals.boardStateChanged]

\* MinesweeperBoard.clearSignals
clearSignals(signals) ==
    [tileChanged |-> clear(signals.tileChanged),
     boardStateChanged |-> clear(signals.boardStateChanged)]

\* The signals of a new board, after new MinesweeperBoardPixi(board) and
\* board.boardStateChangedSignal.connect(...).
ConnectedSignals ==
    [tileChanged |-> connect(<<>>, "onTileChanged"),
     boardStateChanged |-> connect(<<>>, "onBoardStateChanged")]

\* setupBoard, from the window ui to the window around the new board.
setupBoard(ui, board) ==
    [ui EXCEPT !.discarded = IF ui.signals = NULL THEN NULL
                             ELSE Some(clearSignals(ui.signals[1])),
               !.signals = Some(ConnectedSignals),
               !.tiles = board.tileState,
               !.button = board.boardState,
               !.stopwatch = Stopwatch_reset(ui.stopwatch)]

\* The window in its constructor before this.setupBoard().
NewWindow(settings) ==
    [settings |-> settings, signals |-> NULL, discarded |-> NULL, tiles |-> NULL,
     button |-> "not_started", stopwatch |-> Stopwatch]

\* The boards generate can make for the settings.
GeneratedBoards(settings) ==
    {generate(settings.width, settings.height, settings.bombs, random).object[1] :
        random \in RandomDraws(settings.width * settings.height)}

InitUi ==
    \E settings \in UiSettings :
        \E board \in GeneratedBoards(settings) :
            /\ IsBoard(board)
            /\ lastOp = NoCall("constructor", NoError)
            /\ lib = setupBoard(NewWindow(settings), board)

\* mouseup on the board: this.board.clickTile(this.lastHoveredTile)
MouseUp ==
    \E point \in InputPoints :
        \E b \in {clickTile(Cur, point)} :
            /\ tileState' = b.tileState
            /\ tilesLeftToOpenToWin' = b.tilesLeftToOpenToWin
            /\ boardState' = b.boardState
            /\ lastOp' = [name |-> "clickTile", path |-> b.path, threw |-> b.threw,
                          started |-> Started(b), warned |-> Warned(b), opened |-> Opened(b)]
            /\ lib' = [Deliver(lib, lib.signals[1], b.log, 1) EXCEPT !.tiles = TilesAfter(lib, b)]
            /\ UNCHANGED <<tileData, bombCount>>

\* rightup on the board: this.board.changeTileState(this.lastHoveredTile)
RightUp ==
    \E point \in InputPoints :
        \E b \in {changeTileState(Cur, point)} :
            /\ tileState' = b.tileState
            /\ tilesLeftToOpenToWin' = b.tilesLeftToOpenToWin
            /\ boardState' = b.boardState
            /\ lastOp' = [name |-> "changeTileState", path |-> b.path, threw |-> b.threw,
                          started |-> Started(b), warned |-> Warned(b), opened |-> Opened(b)]
            /\ lib' = [Deliver(lib, lib.signals[1], b.log, 1) EXCEPT !.tiles = TilesAfter(lib, b)]
            /\ UNCHANGED <<tileData, bombCount>>

\* The face button is pressed: pressedSignal runs this.setupBoard().
Pressed ==
    \E board \in GeneratedBoards(lib.settings) :
        /\ tileData' = board.tileData
        /\ tileState' = board.tileState
        /\ bombCount' = board.bombCount
        /\ tilesLeftToOpenToWin' = board.tilesLeftToOpenToWin
        /\ boardState' = board.boardState
        /\ lastOp' = NoCall("setupBoard", NoError)
        /\ lib' = setupBoard(lib, board)

\* The ticker, when started, calls update.
Tick ==
    /\ lib.stopwatch.started
    /\ lib.stopwatch.elapsedMS < MaxElapsedMS
    /\ lib' = [lib EXCEPT !.stopwatch = Stopwatch_update(lib.stopwatch)]
    /\ lastOp' = NoCall("update", NoError)
    /\ UNCHANGED <<tileData, tileState, bombCount, tilesLeftToOpenToWin, boardState>>

\* The board set up before this one emits a value on its
\* boardStateChangedSignal, as any call on it would.
DiscardedEmits ==
    /\ lib.discarded # NULL
    /\ \E value \in {"active", "won", "lost"} :
           /\ lib' = InvokeAll(lib, emit(lib.discarded[1].boardStateChanged, value), 1)
           /\ lastOp' = NoCall("discarded", NoError)
    /\ UNCHANGED <<tileData, tileState, bombCount, tilesLeftToOpenToWin, boardState>>

NextUi == MouseUp \/ RightUp \/ Pressed \/ Tick \/ DiscardedEmits

SpecUi == InitUi /\ [][NextUi]_vars

---------------------------------------------------------------------------
(* C31 *)

---------------------------------------------------------------------------
(* C35 *)

\* C35: after every event of the window (a click on a tile, a flag toggle,
\* a press of the face button, a tick) the ticker of the stopwatch is
\* started exactly when the board of the window is active: it starts with
\* the transition to active, it is paused with the time it has reached when
\* the board turns won or lost, and setupBoard stops it and resets it to 0
\* seconds, also when the game before was active.
C35_StopwatchRuns ==
    /\ [](lib.stopwatch.started <=> boardState = "active")
    /\ [](lib.stopwatch.seconds = lib.stopwatch.elapsedMS \div 1000)
    /\ [](lib.button = boardState)
    /\ [][boardState # "active" /\ boardState' = "active" =>
              /\ lib'.stopwatch.started
              /\ lib'.stopwatch.elapsedMS = lib.stopwatch.elapsedMS]_vars
    /\ [][boardState = "active" /\ boardState' \in {"won", "lost"} =>
              /\ ~lib'.stopwatch.started
              /\ lib'.stopwatch.elapsedMS = lib.stopwatch.elapsedMS]_vars
    /\ [][lastOp'.name = "setupBoard" =>
              /\ ~lib'.stopwatch.started
              /\ lib'.stopwatch.elapsedMS = 0
              /\ lib'.stopwatch.seconds = 0]_vars

\* The game was lost after a second of play: the stopwatch is paused at 1.
C35_Witness ==
    /\ boardState = "lost"
    /\ lastOp.name = "clickTile"
    /\ ~lib.stopwatch.started
    /\ lib.stopwatch.elapsedMS = 1000
    /\ lib.stopwatch.display = 1

====
